---- MODULE Spec2Model ----
(***************************************************************************)
(* A model of prompt_utils' styled-text writers: the Style / StyleChange   *)
(* algebra (src/src/styling.rs), the two StyledWrite backends              *)
(* (src/src/writers/ansi.rs, src/src/writers/not_styled.rs) and the        *)
(* with_style! family of macros.                                           *)
(*                                                                         *)
(* Bytes are modelled one by one: a byte is a one-character string, the    *)
(* escape character being written "ESC".                                   *)
(***************************************************************************)
EXTENDS Integers, Sequences, FiniteSets, TLC

(***************************************************************************)
(* Bounds of the model.                                                    *)
(***************************************************************************)
\* A StyleChange given to the writers sets at most this many of its eight
\* fields (StyleChange::RESET, which sets all eight, is always among the
\* inputs as well).
MaxSetFields == 2

(***************************************************************************)
(* styling.rs: Color, Color4Bit                                            *)
(***************************************************************************)
BRIGHT_BIT == 8
RED_BIT == 1
GREEN_BIT == 2
BLUE_BIT == 4

RECURSIVE BitAnd(_, _)
\* Bitwise and of two naturals (bitflags' intersection on the u8 bits).
BitAnd(a, b) ==
    IF a = 0 \/ b = 0 THEN 0
    ELSE (a % 2) * (b % 2) + 2 * BitAnd(a \div 2, b \div 2)

COLOR_MASK == RED_BIT + GREEN_BIT + BLUE_BIT

Unset == [tag |-> "Unset"]
Color4Bit(bits) == [tag |-> "Color4Bit", bits |-> bits]
ANSI256(n) == [tag |-> "ANSI256", n |-> n]
RGB(r, g, b) == [tag |-> "RGB", r |-> r, g |-> g, b |-> b]

BRIGHT_RED == BRIGHT_BIT + RED_BIT
DARK_CYAN == GREEN_BIT + BLUE_BIT

\* The colours the inputs are drawn from: one of each kind of Color, the
\* 4-bit kind in a dark and a bright variant.
Colors == {Unset, Color4Bit(DARK_CYAN), Color4Bit(BRIGHT_RED), ANSI256(200),
           RGB(255, 7, 64)}

(***************************************************************************)
(* styling.rs: Change<T>, Style, StyleChange                               *)
(***************************************************************************)
Keep == [tag |-> "Keep"]
SetTo(v) == [tag |-> "SetTo", value |-> v]

Fields == {"foreground", "background", "bold", "dim",
           "underline", "italic", "blink", "strike"}

Style_default ==
    [foreground |-> Unset, background |-> Unset, bold |-> FALSE, dim |-> FALSE,
     underline |-> FALSE, italic |-> FALSE, blink |-> FALSE, strike |-> FALSE]

Styles ==
    [foreground : Colors, background : Colors, bold : BOOLEAN, dim : BOOLEAN,
     underline : BOOLEAN, italic : BOOLEAN, blink : BOOLEAN, strike : BOOLEAN]

colors_swapped(style) ==
    [style EXCEPT !.foreground = style.background,
                  !.background = style.foreground]

KEEP ==
    [foreground |-> Keep, background |-> Keep, bold |-> Keep, dim |-> Keep,
     underline |-> Keep, italic |-> Keep, blink |-> Keep, strike |-> Keep]

RESET ==
    [foreground |-> SetTo(Unset), background |-> SetTo(Unset),
     bold |-> SetTo(FALSE), dim |-> SetTo(FALSE),
     underline |-> SetTo(FALSE), italic |-> SetTo(FALSE),
     blink |-> SetTo(FALSE), strike |-> SetTo(FALSE)]

setting_to(style) ==
    [foreground |-> SetTo(style.foreground),
     background |-> SetTo(style.background),
     bold |-> SetTo(style.bold), dim |-> SetTo(style.dim),
     underline |-> SetTo(style.underline), italic |-> SetTo(style.italic),
     blink |-> SetTo(style.blink), strike |-> SetTo(style.strike)]

\* Change::apply_to
Change_apply_to(change, value) ==
    IF change.tag = "Keep" THEN value ELSE change.value

\* Mutant of Change::reverting_to: the revert of a SetTo is that SetTo again,
\* not a SetTo of the previous value.
Change_reverting_to_same(change, previous) ==
    IF change.tag = "Keep" THEN Keep ELSE change

\* Change::reverting_to
Change_reverting_to(change, previous) ==
    IF change.tag = "Keep" THEN Keep ELSE SetTo(previous)

\* StyleChange::apply_to
apply_to(self, style) ==
    [foreground |-> IF self.foreground.tag = "Keep" THEN style.foreground
                    ELSE self.foreground.value,
     background |-> IF self.background.tag = "Keep" THEN style.background
                    ELSE self.background.value,
     bold |-> IF self.bold.tag = "Keep" THEN style.bold ELSE self.bold.value,
     dim |-> IF self.dim.tag = "Keep" THEN style.dim ELSE self.dim.value,
     italic |-> IF self.italic.tag = "Keep" THEN style.italic
                ELSE self.italic.value,
     underline |-> IF self.underline.tag = "Keep" THEN style.underline
                   ELSE self.underline.value,
     blink |-> IF self.blink.tag = "Keep" THEN style.blink ELSE self.blink.value,
     strike |-> IF self.strike.tag = "Keep" THEN style.strike
                ELSE self.strike.value]

\* Mutant of StyleChange::reverting_to: the revert sets the values of the
\* change again.
reverting_to_self(self, previous) == self

\* Mutant of StyleChange::reverting_to: every field is set back, the ones
\* the change keeps too.
reverting_to_every_field(self, previous) == setting_to(previous)

\* StyleChange::reverting_to
reverting_to(self, previous) ==
    [foreground |-> Change_reverting_to(self.foreground, previous.foreground),
     background |-> Change_reverting_to(self.background, previous.background),
     bold |-> Change_reverting_to(self.bold, previous.bold),
     dim |-> Change_reverting_to(self.dim, previous.dim),
     underline |-> Change_reverting_to(self.underline, previous.underline),
     italic |-> Change_reverting_to(self.italic, previous.italic),
     blink |-> Change_reverting_to(self.blink, previous.blink),
     strike |-> Change_reverting_to(self.strike, previous.strike)]

\* Mutant of StyleChange::any: the negation is lost.
any_inverted(self) ==
    /\ self.foreground.tag = "Keep" /\ self.background.tag = "Keep"
    /\ self.bold.tag = "Keep" /\ self.dim.tag = "Keep"
    /\ self.underline.tag = "Keep" /\ self.italic.tag = "Keep"
    /\ self.blink.tag = "Keep" /\ self.strike.tag = "Keep"

\* StyleChange::any
any(self) ==
    ~ (/\ self.foreground.tag = "Keep" /\ self.background.tag = "Keep"
       /\ self.bold.tag = "Keep" /\ self.dim.tag = "Keep"
       /\ self.underline.tag = "Keep" /\ self.italic.tag = "Keep"
       /\ self.blink.tag = "Keep" /\ self.strike.tag = "Keep")

\* The fields a StyleChange sets.
SetFields(c) == {f \in Fields : c[f].tag = "SetTo"}

ColorChanges == {Keep} \cup {SetTo(v) : v \in Colors}
BoolChanges == {Keep, SetTo(TRUE), SetTo(FALSE)}

\* Every StyleChange over the sample colours.
AllStyleChanges ==
    [foreground : ColorChanges, background : ColorChanges,
     bold : BoolChanges, dim : BoolChanges, underline : BoolChanges,
     italic : BoolChanges, blink : BoolChanges, strike : BoolChanges]

\* StyleChanges that set more fields: RESET, and one that sets everything
\* but the colours.
MultiFieldChanges ==
    {RESET,
     [RESET EXCEPT !.foreground = Keep, !.background = Keep,
                   !.bold = SetTo(TRUE), !.italic = SetTo(TRUE),
                   !.strike = SetTo(TRUE)]}

\* The StyleChanges given to the writers.
StyleChanges ==
    {c \in AllStyleChanges : Cardinality(SetFields(c)) <= MaxSetFields}
        \cup MultiFieldChanges

(***************************************************************************)
(* Bytes.                                                                  *)
(***************************************************************************)
DigitChars == <<"0", "1", "2", "3", "4", "5", "6", "7", "8", "9">>

RECURSIVE Dec(_)
\* "{}" of a u8: its decimal digits, no leading zero.
Dec(n) ==
    IF n < 10 THEN <<DigitChars[n + 1]>>
    ELSE Dec(n \div 10) \o <<DigitChars[(n % 10) + 1]>>

(***************************************************************************)
(* writers/ansi.rs: ANSIStyledWriter                                       *)
(*                                                                         *)
(* The sink of a call accepts `cap` bytes and fails the write that would   *)
(* pass it, with error `error` (NoFail: it never fails).  A call's outcome *)
(* is                                                                      *)
(* [ret, out, style]: what it returns, the bytes that reached the sink     *)
(* during the call, and the writer's style after it.                       *)
(***************************************************************************)
NoFail == [fails |-> FALSE]
FailAfter(n, e) == [fails |-> TRUE, accepted |-> n, error |-> e]

\* io::Result<()>
Ok == [ok |-> TRUE]
Err(e) == [ok |-> FALSE, error |-> e]

\* Mutant of the `?` after every write!: `self.style` is assigned though a
\* write failed.
Propagate_style_assigned(full, cap, style) ==
    IF ~ cap.fails \/ Len(full.out) <= cap.accepted
    THEN [ret |-> Ok, out |-> full.out, style |-> full.style]
    ELSE [ret |-> Err(cap.error), out |-> SubSeq(full.out, 1, cap.accepted),
          style |-> full.style]

\* The `?` after every write!: the call stops at the first write the sink
\* fails, before `self.style` is assigned.
Propagate(full, cap, style) ==
    IF ~ cap.fails \/ Len(full.out) <= cap.accepted
    THEN [ret |-> Ok, out |-> full.out, style |-> full.style]
    ELSE [ret |-> Err(cap.error), out |-> SubSeq(full.out, 1, cap.accepted),
          style |-> style]

\* Mutant of write_component!: is_first stays true.
write_component_always_first(acc, text) ==
    [out |-> acc.out \o <<"ESC", "[">> \o text, is_first |-> TRUE]

\* write_component!: "ESC[" before the first component, ";" before the others.
write_component(acc, text) ==
    [out |-> acc.out \o (IF acc.is_first THEN <<"ESC", "[">> ELSE <<";">>) \o text,
     is_first |-> FALSE]

\* Mutant of the bold/dim group: bold alone and dim alone are written as
\* "1" and "2", without the "22" that clears the other.
change_style_bold_dim_no_clear(acc, style, change) ==
    IF ~ (change.bold.tag = "Keep" /\ change.dim.tag = "Keep")
    THEN LET bold == IF change.bold.tag = "Keep" THEN style.bold
                     ELSE change.bold.value
             dim == IF change.dim.tag = "Keep" THEN style.dim
                    ELSE change.dim.value
         IN  [acc |-> CASE bold /\ dim -> write_component(acc, <<"1", ";", "2">>)
                        [] bold /\ ~dim -> write_component(acc, <<"1">>)
                        [] ~bold /\ dim -> write_component(acc, <<"2">>)
                        [] ~bold /\ ~dim -> write_component(acc, <<"2", "2">>),
              bold |-> bold, dim |-> dim]
    ELSE [acc |-> acc, bold |-> style.bold, dim |-> style.dim]

\* Mutant of the bold/dim group: the groups of bold alone and of dim alone
\* are exchanged.
change_style_bold_dim_exchanged(acc, style, change) ==
    IF ~ (change.bold.tag = "Keep" /\ change.dim.tag = "Keep")
    THEN LET bold == IF change.bold.tag = "Keep" THEN style.bold
                     ELSE change.bold.value
             dim == IF change.dim.tag = "Keep" THEN style.dim
                    ELSE change.dim.value
         IN  [acc |-> CASE bold /\ dim -> write_component(acc, <<"1", ";", "2">>)
                        [] bold /\ ~dim -> write_component(acc, <<"2", "2", ";", "2">>)
                        [] ~bold /\ dim -> write_component(acc, <<"2", "2", ";", "1">>)
                        [] ~bold /\ ~dim -> write_component(acc, <<"2", "2">>),
              bold |-> bold, dim |-> dim]
    ELSE [acc |-> acc, bold |-> style.bold, dim |-> style.dim]

\* change_style, the bold/dim group.
change_style_bold_dim(acc, style, change) ==
    IF ~ (change.bold.tag = "Keep" /\ change.dim.tag = "Keep")
    THEN LET bold == IF change.bold.tag = "Keep" THEN style.bold
                     ELSE change.bold.value
             dim == IF change.dim.tag = "Keep" THEN style.dim
                    ELSE change.dim.value
         IN  [acc |-> CASE bold /\ dim -> write_component(acc, <<"1", ";", "2">>)
                        [] bold /\ ~dim -> write_component(acc, <<"2", "2", ";", "1">>)
                        [] ~bold /\ dim -> write_component(acc, <<"2", "2", ";", "2">>)
                        [] ~bold /\ ~dim -> write_component(acc, <<"2", "2">>),
              bold |-> bold, dim |-> dim]
    ELSE [acc |-> acc, bold |-> style.bold, dim |-> style.dim]

\* Mutant of the italic / underline / blink / strike group: nothing is
\* written for a field set to the value it has.
change_style_flag_if_different(acc, current, change, on, off) ==
    CASE change.tag = "Keep" -> [acc |-> acc, value |-> current]
      [] change.tag = "SetTo" /\ change.value = current ->
            [acc |-> acc, value |-> current]
      [] change.tag = "SetTo" /\ change.value /\ ~current ->
            [acc |-> write_component(acc, on), value |-> TRUE]
      [] change.tag = "SetTo" /\ ~change.value /\ current ->
            [acc |-> write_component(acc, off), value |-> FALSE]

\* change_style, one of italic / underline / blink / strike: `on` enables
\* it and `off` disables it.
change_style_flag(acc, current, change, on, off) ==
    CASE change.tag = "Keep" -> [acc |-> acc, value |-> current]
      [] change.tag = "SetTo" /\ change.value ->
            [acc |-> write_component(acc, on), value |-> TRUE]
      [] change.tag = "SetTo" /\ ~change.value ->
            [acc |-> write_component(acc, off), value |-> FALSE]

\* Mutant of the foreground component: the bright bit is left in the
\* colour number.
change_style_foreground_unmasked(acc, foreground) ==
    CASE foreground.tag = "Unset" -> write_component(acc, <<"3", "9">>)
      [] foreground.tag = "Color4Bit" ->
            IF BitAnd(foreground.bits, BRIGHT_BIT) = BRIGHT_BIT
            THEN write_component(acc, <<"9">> \o Dec(foreground.bits))
            ELSE write_component(acc, <<"3">> \o Dec(foreground.bits))
      [] foreground.tag = "ANSI256" ->
            write_component(acc, <<"3", "8", ";", "5", ";">> \o Dec(foreground.n))
      [] foreground.tag = "RGB" ->
            write_component(acc, <<"3", "8", ";", "2", ";">> \o Dec(foreground.r)
                \o <<";">> \o Dec(foreground.g) \o <<";">> \o Dec(foreground.b))

\* change_style, the component of a foreground colour.
change_style_foreground(acc, foreground) ==
    CASE foreground.tag = "Unset" -> write_component(acc, <<"3", "9">>)
      [] foreground.tag = "Color4Bit" ->
            LET color_number == BitAnd(foreground.bits, COLOR_MASK)
            IN  IF BitAnd(foreground.bits, BRIGHT_BIT) = BRIGHT_BIT
                THEN write_component(acc, <<"9">> \o Dec(color_number))
                ELSE write_component(acc, <<"3">> \o Dec(color_number))
      [] foreground.tag = "ANSI256" ->
            write_component(acc, <<"3", "8", ";", "5", ";">> \o Dec(foreground.n))
      [] foreground.tag = "RGB" ->
            write_component(acc, <<"3", "8", ";", "2", ";">> \o Dec(foreground.r)
                \o <<";">> \o Dec(foreground.g) \o <<";">> \o Dec(foreground.b))

\* change_style, the component of a background colour.
change_style_background(acc, background) ==
    CASE background.tag = "Unset" -> write_component(acc, <<"4", "9">>)
      [] background.tag = "Color4Bit" ->
            LET color_number == BitAnd(background.bits, COLOR_MASK)
            IN  IF BitAnd(background.bits, BRIGHT_BIT) = BRIGHT_BIT
                THEN write_component(acc, <<"1", "0">> \o Dec(color_number))
                ELSE write_component(acc, <<"4">> \o Dec(color_number))
      [] background.tag = "ANSI256" ->
            write_component(acc, <<"4", "8", ";", "5", ";">> \o Dec(background.n))
      [] background.tag = "RGB" ->
            write_component(acc, <<"4", "8", ";", "2", ";">> \o Dec(background.r)
                \o <<";">> \o Dec(background.g) \o <<";">> \o Dec(background.b))

\* ANSIStyledWriter::change_style on a sink that accepts everything: the
\* bytes written and the style recorded.
ansi_change_style_full(style, change) ==
    IF ~ any(change) THEN [out |-> <<>>, style |-> style]
    ELSE
    LET a0 == [out |-> <<>>, is_first |-> TRUE]
        bd == change_style_bold_dim(a0, style, change)
        it == change_style_flag(bd.acc, style.italic, change.italic,
                                <<"3">>, <<"2", "3">>)
        un == change_style_flag(it.acc, style.underline, change.underline,
                                <<"4">>, <<"2", "4">>)
        bl == change_style_flag(un.acc, style.blink, change.blink,
                                <<"5">>, <<"2", "5">>)
        st == change_style_flag(bl.acc, style.strike, change.strike,
                                <<"9">>, <<"2", "9">>)
        fg == IF change.foreground.tag = "Keep"
              THEN [acc |-> st.acc, value |-> style.foreground]
              ELSE [acc |-> change_style_foreground(st.acc, change.foreground.value),
                    value |-> change.foreground.value]
        bg == IF change.background.tag = "Keep"
              THEN [acc |-> fg.acc, value |-> style.background]
              ELSE [acc |-> change_style_background(fg.acc, change.background.value),
                    value |-> change.background.value]
    IN  [out |-> bg.acc.out \o <<"m">>,
         style |-> [foreground |-> fg.value, background |-> bg.value,
                    bold |-> bd.bold, dim |-> bd.dim,
                    underline |-> un.value, italic |-> it.value,
                    blink |-> bl.value, strike |-> st.value]]

\* ANSIStyledWriter::change_style
ansi_change_style(style, change, cap) ==
    Propagate(ansi_change_style_full(style, change), cap, style)

\* Mutant of reset_style: nothing is written in the default style.
ansi_reset_style_if_needed(style, cap) ==
    IF style = Style_default THEN [ret |-> Ok, out |-> <<>>, style |-> style]
    ELSE Propagate([out |-> <<"ESC", "[", "0", "m">>, style |-> Style_default],
                   cap, style)

\* ANSIStyledWriter::reset_style
ansi_reset_style(style, cap) ==
    Propagate([out |-> <<"ESC", "[", "0", "m">>, style |-> Style_default],
              cap, style)

\* swap_colors, the new foreground: the old background.
swap_colors_foreground(background) ==
    CASE background.tag = "Unset" -> <<"3", "9">>
      [] background.tag = "Color4Bit" ->
            LET color_number == BitAnd(background.bits, COLOR_MASK)
            IN  IF BitAnd(background.bits, BRIGHT_BIT) = BRIGHT_BIT
                THEN <<"9">> \o Dec(color_number)
                ELSE <<"3">> \o Dec(color_number)
      [] background.tag = "ANSI256" ->
            <<"3", "8", ";", "5", ";">> \o Dec(background.n)
      [] background.tag = "RGB" ->
            <<"3", "8", ";", "2", ";">> \o Dec(background.r)
                \o <<";">> \o Dec(background.g) \o <<";">> \o Dec(background.b)

\* Mutant of the new background of swap_colors: the bright bit is not
\* looked at.
swap_colors_background_dark(foreground) ==
    CASE foreground.tag = "Unset" -> <<"4", "9">>
      [] foreground.tag = "Color4Bit" ->
            <<"4">> \o Dec(BitAnd(foreground.bits, COLOR_MASK))
      [] foreground.tag = "ANSI256" ->
            <<"4", "8", ";", "5", ";">> \o Dec(foreground.n)
      [] foreground.tag = "RGB" ->
            <<"4", "8", ";", "2", ";">> \o Dec(foreground.r)
                \o <<";">> \o Dec(foreground.g) \o <<";">> \o Dec(foreground.b)

\* swap_colors, the new background: the old foreground.
swap_colors_background(foreground) ==
    CASE foreground.tag = "Unset" -> <<"4", "9">>
      [] foreground.tag = "Color4Bit" ->
            LET color_number == BitAnd(foreground.bits, COLOR_MASK)
            IN  IF BitAnd(foreground.bits, BRIGHT_BIT) = BRIGHT_BIT
                THEN <<"1", "0">> \o Dec(color_number)
                ELSE <<"4">> \o Dec(color_number)
      [] foreground.tag = "ANSI256" ->
            <<"4", "8", ";", "5", ";">> \o Dec(foreground.n)
      [] foreground.tag = "RGB" ->
            <<"4", "8", ";", "2", ";">> \o Dec(foreground.r)
                \o <<";">> \o Dec(foreground.g) \o <<";">> \o Dec(foreground.b)

\* Mutant of swap_colors: the foreground is recorded as the background it
\* was, and the background is left.
ansi_swap_colors_full_one_way(style) ==
    IF style.foreground = style.background THEN [out |-> <<>>, style |-> style]
    ELSE [out |-> <<"ESC", "[">> \o swap_colors_foreground(style.background)
                    \o <<";">> \o swap_colors_background(style.foreground)
                    \o <<"m">>,
          style |-> [style EXCEPT !.foreground = style.background]]

\* Mutant of swap_colors: equal colours are written as well.
ansi_swap_colors_full_always(style) ==
    [out |-> <<"ESC", "[">> \o swap_colors_foreground(style.background)
                \o <<";">> \o swap_colors_background(style.foreground)
                \o <<"m">>,
     style |-> [style EXCEPT !.foreground = style.background,
                             !.background = style.foreground]]

\* ANSIStyledWriter::swap_colors on a sink that accepts everything.
ansi_swap_colors_full(style) ==
    IF style.foreground = style.background THEN [out |-> <<>>, style |-> style]
    ELSE [out |-> <<"ESC", "[">> \o swap_colors_foreground(style.background)
                    \o <<";">> \o swap_colors_background(style.foreground)
                    \o <<"m">>,
          style |-> [style EXCEPT !.foreground = style.background,
                                  !.background = style.foreground]]

\* ANSIStyledWriter::swap_colors
ansi_swap_colors(style, cap) ==
    Propagate(ansi_swap_colors_full(style), cap, style)

(***************************************************************************)
(* writers/not_styled.rs: NotStyledWriter, with StyledWrite's provided     *)
(* reset_style and swap_colors.  It never calls its sink.                  *)
(***************************************************************************)
\* Mutant of NotStyledWriter::change_style: the change is ignored, style
\* and all.
not_styled_change_style_ignored(style, change) ==
    [ret |-> Ok, out |-> <<>>, style |-> style]

\* NotStyledWriter::change_style
not_styled_change_style(style, change) ==
    [ret |-> Ok, out |-> <<>>, style |-> apply_to(change, style)]

\* StyledWrite::reset_style (the provided method)
not_styled_reset_style(style) == not_styled_change_style(style, RESET)

\* StyledWrite::swap_colors (the provided method)
not_styled_swap_colors(style) ==
    not_styled_change_style(style,
        [KEEP EXCEPT !.foreground = SetTo(style.background),
                     !.background = SetTo(style.foreground)])

(***************************************************************************)
(* A terminal, reading the bytes of the ANSI writer: the style it renders  *)
(* after a sequence of SGR parameters.  Bytes that are no SGR sequence, or *)
(* a parameter it does not know, leave it Garbled.                         *)
(***************************************************************************)
Garbled == [garbled |-> TRUE]

\* The value of a digit byte.
DigitValueOf ==
    [ch \in {DigitChars[d + 1] : d \in 0..9} |->
        CHOOSE d \in 0..9 : DigitChars[d + 1] = ch]

RECURSIVE ReadParams(_, _, _, _, _)
\* The parameters from place i of `bytes` up to the "m" that ends them: the
\* runs of digits between ";".  [ok, params, next], next being the place
\* after the "m".  `n` is the value of the digits read of the current
\* parameter and `has` tells whether it has any.  An empty parameter, a
\* byte that is none of digit, ";" and "m", or no "m", garbles the sequence.
ReadParams(bytes, i, n, has, done) ==
    IF i > Len(bytes) THEN [ok |-> FALSE]
    ELSE IF bytes[i] = ";"
         THEN IF has THEN ReadParams(bytes, i + 1, 0, FALSE, Append(done, n))
              ELSE [ok |-> FALSE]
    ELSE IF bytes[i] = "m"
         THEN IF has THEN [ok |-> TRUE, params |-> Append(done, n), next |-> i + 1]
              ELSE [ok |-> FALSE]
    ELSE IF bytes[i] \notin DOMAIN DigitValueOf THEN [ok |-> FALSE]
    ELSE ReadParams(bytes, i + 1, 10 * n + DigitValueOf[bytes[i]], TRUE, done)

\* The style after the colour parameters that follow a 38 (foreground) or a
\* 48 (background) at place i of `ps`, and the place after them:
\* 5;n or 2;r;g;b.
ExtendedColor(t, ps, i, field) ==
    IF i + 1 <= Len(ps) /\ ps[i] = 5 /\ ps[i + 1] \in 0..255
    THEN [t |-> [t EXCEPT ![field] = ANSI256(ps[i + 1])], next |-> i + 2]
    ELSE IF i + 3 <= Len(ps) /\ ps[i] = 2
            /\ \A j \in (i + 1)..(i + 3) : ps[j] \in 0..255
    THEN [t |-> [t EXCEPT ![field] = RGB(ps[i + 1], ps[i + 2], ps[i + 3])],
          next |-> i + 4]
    ELSE [t |-> Garbled, next |-> i]

RECURSIVE SGRFrom(_, _, _)
\* The style rendered after the parameters of `ps` from place i on, from the
\* style `t`: 0 resets everything, 22 clears bold and dim, 1 and 2 set
\* them, 3/23, 4/24, 5/25 and 9/29 set and clear italic, underline, blink
\* and strike, 3x/9x/38 and 4x/10x/48 set the colours, 39 and 49 unset them.
SGRFrom(t, ps, i) ==
    IF i > Len(ps) \/ t = Garbled THEN t
    ELSE LET p == ps[i]
         IN  CASE p = 0 -> SGRFrom(Style_default, ps, i + 1)
               [] p = 1 -> SGRFrom([t EXCEPT !.bold = TRUE], ps, i + 1)
               [] p = 2 -> SGRFrom([t EXCEPT !.dim = TRUE], ps, i + 1)
               [] p = 22 ->
                    SGRFrom([t EXCEPT !.bold = FALSE, !.dim = FALSE], ps, i + 1)
               [] p = 3 -> SGRFrom([t EXCEPT !.italic = TRUE], ps, i + 1)
               [] p = 23 -> SGRFrom([t EXCEPT !.italic = FALSE], ps, i + 1)
               [] p = 4 -> SGRFrom([t EXCEPT !.underline = TRUE], ps, i + 1)
               [] p = 24 -> SGRFrom([t EXCEPT !.underline = FALSE], ps, i + 1)
               [] p = 5 -> SGRFrom([t EXCEPT !.blink = TRUE], ps, i + 1)
               [] p = 25 -> SGRFrom([t EXCEPT !.blink = FALSE], ps, i + 1)
               [] p = 9 -> SGRFrom([t EXCEPT !.strike = TRUE], ps, i + 1)
               [] p = 29 -> SGRFrom([t EXCEPT !.strike = FALSE], ps, i + 1)
               [] p >= 30 /\ p <= 37 ->
                    SGRFrom([t EXCEPT !.foreground = Color4Bit(p - 30)], ps, i + 1)
               [] p >= 90 /\ p <= 97 ->
                    SGRFrom([t EXCEPT !.foreground = Color4Bit(BRIGHT_BIT + p - 90)],
                            ps, i + 1)
               [] p = 39 -> SGRFrom([t EXCEPT !.foreground = Unset], ps, i + 1)
               [] p >= 40 /\ p <= 47 ->
                    SGRFrom([t EXCEPT !.background = Color4Bit(p - 40)], ps, i + 1)
               [] p >= 100 /\ p <= 107 ->
                    SGRFrom([t EXCEPT !.background = Color4Bit(BRIGHT_BIT + p - 100)],
                            ps, i + 1)
               [] p = 49 -> SGRFrom([t EXCEPT !.background = Unset], ps, i + 1)
               [] p = 38 ->
                    LET e == ExtendedColor(t, ps, i + 1, "foreground")
                    IN  SGRFrom(e.t, ps, e.next)
               [] p = 48 ->
                    LET e == ExtendedColor(t, ps, i + 1, "background")
                    IN  SGRFrom(e.t, ps, e.next)
               [] OTHER -> Garbled

\* The style rendered after the parameters `ps`, from the style `t`.
SGR(t, ps) == SGRFrom(t, ps, 1)

RECURSIVE RenderFrom(_, _, _)
\* The style the terminal renders after reading `bytes` from place i on,
\* in style `t`.
RenderFrom(t, bytes, i) ==
    IF i > Len(bytes) \/ t = Garbled THEN t
    ELSE IF i + 1 > Len(bytes) \/ bytes[i] # "ESC" \/ bytes[i + 1] # "["
         THEN Garbled
         ELSE LET ps == ReadParams(bytes, i + 2, 0, FALSE, <<>>)
              IN  IF ~ ps.ok THEN Garbled
                  ELSE RenderFrom(SGR(t, ps.params), bytes, ps.next)

\* The style the terminal renders after reading `bytes` in style `t`.
Render(t, bytes) == RenderFrom(t, bytes, 1)

(***************************************************************************)
(* State.                                                                  *)
(***************************************************************************)
VARIABLES
    ansi,        \* the ANSIStyledWriter: [writer, style]
    not_styled,  \* the NotStyledWriter: [writer, style]
    calls,       \* SpecCalls: the calls made, each with what it did;
                 \* SpecSink: the last call
    alg,         \* SpecAlgebra, SpecNested: the inputs and the results
    macro,       \* SpecMacro: how far the macro has come, and with what
    pure         \* SpecPath, SpecGit, SpecExit, SpecDuration, SpecHuman,
                 \* SpecShort: the inputs of a function, and its result

writerVars == <<ansi, not_styled, calls>>
algVars == <<alg, macro, pure>>
vars == <<ansi, not_styled, calls, alg, macro, pure>>

None == [none |-> TRUE]

AlgIdle == alg = None /\ macro = None /\ pure = None

(***************************************************************************)
(* Spec: an ANSIStyledWriter and a NotStyledWriter, both fresh, given the  *)
(* same calls, their sinks never failing.  The sink of the ANSI writer is  *)
(* a terminal: `ansi.writer` is the style it renders.  The sink of the     *)
(* other is a buffer: `not_styled.writer` is the bytes the last call       *)
(* wrote.                                                                  *)
(***************************************************************************)
\* ANSIStyledWriter::new and NotStyledWriter::new
Init ==
    /\ ansi = [writer |-> Style_default, style |-> Style_default]
    /\ not_styled = [writer |-> <<>>, style |-> Style_default]
    /\ calls = <<>>
    /\ AlgIdle

\* One call on both writers, with outcomes a (ANSI) and n (not styled).
Rendered(a, n) ==
    /\ ansi' = [writer |-> Render(ansi.writer, a.out), style |-> a.style]
    /\ not_styled' = [writer |-> n.out, style |-> n.style]
    /\ UNCHANGED <<calls, algVars>>

ChangeStyle ==
    \E change \in StyleChanges :
        Rendered(ansi_change_style(ansi.style, change, NoFail),
                 not_styled_change_style(not_styled.style, change))

ResetStyle ==
    Rendered(ansi_reset_style(ansi.style, NoFail),
             not_styled_reset_style(not_styled.style))

SwapColors ==
    Rendered(ansi_swap_colors(ansi.style, NoFail),
             not_styled_swap_colors(not_styled.style))

Next == ChangeStyle \/ ResetStyle \/ SwapColors

Spec == Init /\ [][Next]_vars

(***************************************************************************)
(* SpecCalls: one call on both writers, in any style a writer can be in    *)
(* (Spec reaches every one of Styles), and swap_colors a second time.      *)
(* The sinks are buffers: `writer` is the bytes the last call wrote.       *)
(* `calls` keeps, of each call, the operation, its argument, the styles    *)
(* before it, the bytes written and what it returned.                      *)
(***************************************************************************)
CallsInit ==
    /\ \E s \in Styles :
        /\ ansi = [writer |-> <<>>, style |-> s]
        /\ not_styled = [writer |-> <<>>, style |-> s]
    /\ calls = <<>>
    /\ AlgIdle

\* One call on both writers, with outcomes a (ANSI) and n (not styled).
Called(op, change, a, n) ==
    /\ ansi' = [writer |-> a.out, style |-> a.style]
    /\ not_styled' = [writer |-> n.out, style |-> n.style]
    /\ calls' = Append(calls,
        [op |-> op, change |-> change,
         ansi_before |-> ansi.style, not_styled_before |-> not_styled.style,
         ansi_out |-> a.out, not_styled_out |-> n.out,
         ansi_ret |-> a.ret, not_styled_ret |-> n.ret])
    /\ UNCHANGED algVars

CallChangeStyle ==
    /\ calls = <<>>
    /\ \E change \in StyleChanges :
        Called("change_style", change,
               ansi_change_style(ansi.style, change, NoFail),
               not_styled_change_style(not_styled.style, change))

CallResetStyle ==
    /\ calls = <<>>
    /\ Called("reset_style", KEEP,
              ansi_reset_style(ansi.style, NoFail),
              not_styled_reset_style(not_styled.style))

CallSwapColors ==
    /\ calls = <<>> \/ (Len(calls) = 1 /\ calls[1].op = "swap_colors")
    /\ Called("swap_colors", KEEP,
              ansi_swap_colors(ansi.style, NoFail),
              not_styled_swap_colors(not_styled.style))

CallsNext == CallChangeStyle \/ CallResetStyle \/ CallSwapColors

SpecCalls == CallsInit /\ [][CallsNext]_vars

(***************************************************************************)
(* SpecAlgebra: StyleChange::apply_to and StyleChange::reverting_to as     *)
(* pure functions, on every Style and every StyleChange of the inputs.     *)
(***************************************************************************)
AlgInit ==
    /\ ansi = [writer |-> <<>>, style |-> Style_default]
    /\ not_styled = [writer |-> <<>>, style |-> Style_default]
    /\ calls = <<>>
    /\ alg \in [pc : {"input"}, s : Styles, c : StyleChanges]
    /\ macro = None
    /\ pure = None

\* c.apply_to(s), c.reverting_to(s) and the revert applied to the result.
ApplyThenRevert ==
    /\ alg.pc = "input"
    /\ LET applied == apply_to(alg.c, alg.s)
           revert == reverting_to(alg.c, alg.s)
       IN  alg' = [pc |-> "reverted", s |-> alg.s, c |-> alg.c,
                   applied |-> applied, revert |-> revert,
                   reverted |-> apply_to(revert, applied)]
    /\ UNCHANGED <<writerVars, macro, pure>>

AlgNext == ApplyThenRevert

SpecAlgebra == AlgInit /\ [][AlgNext]_vars

(***************************************************************************)
(* styling.rs: with_style!, with_style_then_reset!, with_swapped_colors!.  *)
(***************************************************************************)
MaxAccepted == 2
MaxValue == 2

MacroKinds == {"with_style", "with_style_then_reset", "with_swapped_colors"}
Backends == {"ansi", "not_styled"}
ErrorKinds == {"BrokenPipe", "WriteZero"}

\* The sinks: one that never fails, and those that fail after some bytes.
Caps == {NoFail} \cup {FailAfter(n, e) : n \in 0..MaxAccepted, e \in ErrorKinds}

\* The results of the work unit.
Values == 1..MaxValue

\* The styles a macro is entered in.
MacroStyles ==
    {[Style_default EXCEPT !.foreground = fg, !.background = bg,
                           !.bold = b, !.italic = i] :
        fg \in {Unset, Color4Bit(BRIGHT_RED)},
        bg \in {Unset, Color4Bit(BRIGHT_RED)},
        b \in BOOLEAN, i \in BOOLEAN}

\* The style changes a macro is given.
MacroChanges ==
    {[KEEP EXCEPT !.foreground = fg, !.bold = b, !.italic = i] :
        fg \in {Keep, SetTo(Unset), SetTo(ANSI256(200))},
        b \in {Keep, SetTo(TRUE), SetTo(FALSE)},
        i \in {Keep, SetTo(TRUE), SetTo(FALSE)}} \cup {RESET}

\* A style operation: a method of StyledWrite with its argument.
StyleOp(op, change) == [op |-> op, change |-> change]

\* What the work unit does to the style of the writer: nothing, or one
\* style operation of its own.
WorkOps ==
    {StyleOp("none", KEEP), StyleOp("reset_style", KEEP),
     StyleOp("swap_colors", KEEP),
     StyleOp("change_style", [KEEP EXCEPT !.foreground = SetTo(Color4Bit(DARK_CYAN))]),
     StyleOp("change_style", [KEEP EXCEPT !.bold = SetTo(TRUE)]),
     StyleOp("change_style", [KEEP EXCEPT !.underline = SetTo(TRUE)])}

\* A method of StyledWrite, called on the writer of a backend in `style`.
StyledWrite_call(backend, style, op, cap) ==
    CASE op.op = "none" -> [ret |-> Ok, out |-> <<>>, style |-> style]
      [] op.op = "change_style" /\ backend = "ansi" ->
            ansi_change_style(style, op.change, cap)
      [] op.op = "reset_style" /\ backend = "ansi" -> ansi_reset_style(style, cap)
      [] op.op = "swap_colors" /\ backend = "ansi" -> ansi_swap_colors(style, cap)
      [] op.op = "change_style" /\ backend = "not_styled" ->
            not_styled_change_style(style, op.change)
      [] op.op = "reset_style" /\ backend = "not_styled" ->
            not_styled_reset_style(style)
      [] op.op = "swap_colors" /\ backend = "not_styled" ->
            not_styled_swap_colors(style)

\* with_style!: `revert_style_change`, taken before the first operation.
revert_style_change(kind, style_change, style) ==
    IF kind = "with_style" THEN reverting_to(style_change, style) ELSE KEEP

\* The style operation a macro begins with.
first_style_op(kind, style_change) ==
    CASE kind = "with_style" -> StyleOp("change_style", style_change)
      [] kind = "with_style_then_reset" -> StyleOp("change_style", style_change)
      [] kind = "with_swapped_colors" -> StyleOp("swap_colors", KEEP)

\* Mutant of the outer match: the error of the first operation is dropped.
on_first_ignored(ret) == [pc |-> "work", result |-> None]

\* The outer match of a macro: Err(err) => Err(err), Ok(()) => the work.
on_first(ret) ==
    IF ret = Ok THEN [pc |-> "work", result |-> None]
    ELSE [pc |-> "returned", result |-> ret]

\* Mutant of the closing operation: with_style_then_reset! closes with
\* change_style, as with_style! does.
second_style_op_revert(kind, revert) ==
    CASE kind = "with_style" -> StyleOp("change_style", revert)
      [] kind = "with_style_then_reset" -> StyleOp("change_style", revert)
      [] kind = "with_swapped_colors" -> StyleOp("swap_colors", KEEP)

\* Mutant of the closing operation: with_style! resets.
second_style_op_reset(kind, revert) ==
    CASE kind = "with_style" -> StyleOp("reset_style", KEEP)
      [] kind = "with_style_then_reset" -> StyleOp("reset_style", KEEP)
      [] kind = "with_swapped_colors" -> StyleOp("swap_colors", KEEP)

\* The style operation a macro ends with.
second_style_op(kind, revert) ==
    CASE kind = "with_style" -> StyleOp("change_style", revert)
      [] kind = "with_style_then_reset" -> StyleOp("reset_style", KEEP)
      [] kind = "with_swapped_colors" -> StyleOp("swap_colors", KEEP)

\* Ok(result)
OkValue(result) == [ok |-> TRUE, value |-> result]

\* Mutant of the inner match: the result of the work is returned always.
on_second_keeps_result(ret, result) == OkValue(result)

\* The inner match of a macro: Ok(()) => Ok(result), Err(err) => Err(err).
on_second(ret, result) == IF ret = Ok THEN OkValue(result) ELSE ret

(***************************************************************************)
(* SpecMacro: one of the three macros, on a writer of either backend in a  *)
(* style of MacroStyles.  Each style operation of the macro meets a sink   *)
(* that never fails or one that fails after some bytes; the work unit      *)
(* returns a value, after at most one style operation of its own.  The     *)
(* sink is a buffer: `writer` is all the bytes written.                    *)
(***************************************************************************)
MacroInit ==
    /\ \E backend \in Backends, kind \in MacroKinds,
          style_change \in MacroChanges, s \in MacroStyles :
        /\ kind = "with_swapped_colors" => style_change = KEEP
        /\ ansi = [writer |-> <<>>, style |-> s]
        /\ not_styled = [writer |-> <<>>, style |-> s]
        /\ macro = [pc |-> "entered", kind |-> kind, backend |-> backend,
                    style_change |-> style_change, before |-> s,
                    revert |-> KEEP, first |-> None,
                    work_ran |-> FALSE, work |-> StyleOp("none", KEEP),
                    during |-> s, after_work |-> s, value |-> 0,
                    second |-> None, style_ops |-> 0, ops |-> <<>>,
                    result |-> None]
    /\ calls = <<>>
    /\ alg = None
    /\ pure = None

\* The writer the macro was given.
MacroWriter == IF macro.backend = "ansi" THEN ansi ELSE not_styled

\* The writer of the macro after a style operation with outcome r.
Written(r) ==
    LET w == [writer |-> MacroWriter.writer \o r.out, style |-> r.style]
    IN  /\ ansi' = IF macro.backend = "ansi" THEN w ELSE ansi
        /\ not_styled' = IF macro.backend = "ansi" THEN not_styled ELSE w
        /\ UNCHANGED <<calls, alg, pure>>

\* The macro up to the outcome of its first style operation.
MacroFirst ==
    /\ macro # None /\ macro.pc = "entered"
    /\ \E cap \in Caps :
        LET revert == revert_style_change(macro.kind, macro.style_change,
                                          MacroWriter.style)
            op == first_style_op(macro.kind, macro.style_change)
            r == StyledWrite_call(macro.backend, MacroWriter.style, op, cap)
            to == on_first(r.ret)
        IN  /\ Written(r)
            /\ macro' = [macro EXCEPT !.pc = to.pc, !.result = to.result,
                                      !.revert = revert, !.first = r.ret,
                                      !.style_ops = 1,
                                      !.ops = Append(macro.ops, op)]

\* `let result = $code`: the work unit, with a style operation of its own.
MacroWork ==
    /\ macro # None /\ macro.pc = "work"
    /\ \E op \in WorkOps, result \in Values :
        LET r == StyledWrite_call(macro.backend, MacroWriter.style, op, NoFail)
        IN  /\ Written(r)
            /\ macro' = [macro EXCEPT !.pc = "close", !.work_ran = TRUE,
                                      !.work = op, !.value = result,
                                      !.during = MacroWriter.style,
                                      !.after_work = r.style,
                                      !.ops = IF op.op = "none" THEN macro.ops
                                              ELSE Append(macro.ops, op)]

\* The macro from its second style operation to its return.
MacroSecond ==
    /\ macro # None /\ macro.pc = "close"
    /\ \E cap \in Caps :
        LET op == second_style_op(macro.kind, macro.revert)
            r == StyledWrite_call(macro.backend, MacroWriter.style, op, cap)
        IN  /\ Written(r)
            /\ macro' = [macro EXCEPT !.pc = "returned", !.second = r.ret,
                                      !.style_ops = 2,
                                      !.ops = Append(macro.ops, op),
                                      !.result = on_second(r.ret, macro.value)]

MacroNext == MacroFirst \/ MacroWork \/ MacroSecond

SpecMacro == MacroInit /\ [][MacroNext]_vars

(***************************************************************************)
(* SpecColors: one change_style that sets the colours, on fresh writers,   *)
(* for every 4-bit colour, every 256-colour index and RGB colours of a     *)
(* few levels.                                                             *)
(***************************************************************************)
RGBLevels == {0, 7, 64, 255}

WideColors ==
    {Unset} \cup {Color4Bit(bits) : bits \in 0..15}
            \cup {ANSI256(n) : n \in 0..255}
            \cup {RGB(r, g, b) : r \in RGBLevels, g \in RGBLevels, b \in RGBLevels}

WideColorChanges == {Keep} \cup {SetTo(color) : color \in WideColors}

ColorsInit ==
    /\ ansi = [writer |-> <<>>, style |-> Style_default]
    /\ not_styled = [writer |-> <<>>, style |-> Style_default]
    /\ calls = <<>>
    /\ AlgIdle

CallSetColors ==
    /\ calls = <<>>
    /\ \E foreground \in WideColorChanges, background \in WideColorChanges :
        LET change == [KEEP EXCEPT !.foreground = foreground,
                                   !.background = background]
        IN  Called("change_style", change,
                   ansi_change_style(ansi.style, change, NoFail),
                   not_styled_change_style(not_styled.style, change))

ColorsNext == CallSetColors

SpecColors == ColorsInit /\ [][ColorsNext]_vars

(***************************************************************************)
(* env/path.rs: find_ancestor, on Unix paths.  A path is its text: whether *)
(* it begins with "/", and the names between the "/" that follow.  Path's  *)
(* components and ancestors are those of std::path on Unix; there is no    *)
(* Component::Prefix there.                                                *)
(***************************************************************************)
MaxBaseNames == 2
MaxPathNames == 4

Names == {".", "..", "a", "b"}

\* The path with the text "/" (if root) and the names joined by "/"; an
\* empty name at the end is a "/" that ends the text.
PathOf(root, names) == [root |-> root, names |-> names]

RootDir == [kind |-> "RootDir"]
CurDir == [kind |-> "CurDir"]
ParentDir == [kind |-> "ParentDir"]
Normal(name) == [kind |-> "Normal", name |-> name]

Some(value) == [some |-> value]

RECURSIVE BodyComponents(_, _)
\* The components of the names from place i on: "." is no component, nor
\* is the empty name.
BodyComponents(names, i) ==
    IF i > Len(names) THEN <<>>
    ELSE (CASE names[i] = "." -> <<>>
            [] names[i] = "" -> <<>>
            [] names[i] = ".." -> <<ParentDir>>
            [] OTHER -> <<Normal(names[i])>>) \o BodyComponents(names, i + 1)

\* Path::components: RootDir for the leading "/", CurDir for a "." that
\* begins a relative path, and the names without the other ".".
components(path) ==
    (IF path.root THEN <<RootDir>>
     ELSE IF path.names # <<>> /\ path.names[1] = "." THEN <<CurDir>>
     ELSE <<>>) \o BodyComponents(path.names, 1)

\* The places of the names of `path` that are components.
ComponentPlaces(path) ==
    {i \in 1..Len(path.names) :
        /\ path.names[i] # ""
        /\ path.names[i] # "." \/ (i = 1 /\ ~ path.root)}

RECURSIVE ancestors_reversed(_, _)
\* Path::ancestors, reversed, of a path cut after a component at place n
\* (0: before all names): the path cut before each of its components, then
\* itself.  Path::parent cuts the last component, and the "." before it.
ancestors_reversed(path, n) ==
    LET places == {i \in ComponentPlaces(path) : i <= n}
        cut == PathOf(path.root, SubSeq(path.names, 1, n))
    IN  IF places = {} THEN <<cut>>
        ELSE LET last == CHOOSE i \in places : \A j \in places : j <= i
                 before == {i \in places : i < last}
                 parent == IF before = {} THEN 0
                           ELSE CHOOSE i \in before : \A j \in before : j <= i
             IN  Append(ancestors_reversed(path, parent), cut)

\* Mutant of the ancestors: they are not reversed.
ancestors_not_reversed(path) ==
    LET places == ComponentPlaces(path)
        last == IF places = {} THEN 0
                ELSE CHOOSE i \in places : \A j \in places : j <= i
        cuts == ancestors_reversed(path, last)
    IN  [i \in 1..Len(cuts) |->
            IF i = 1 THEN path ELSE cuts[Len(cuts) + 1 - i]]

\* `path.ancestors()`, collected and reversed: the first is the path
\* itself, with the "." that may end it.
ancestors(path) ==
    LET places == ComponentPlaces(path)
        last == IF places = {} THEN 0
                ELSE CHOOSE i \in places : \A j \in places : j <= i
        cuts == ancestors_reversed(path, last)
    IN  [cuts EXCEPT ![Len(cuts)] = path]

RECURSIVE find_ancestor_matching(_, _, _, _, _, _)
\* find_ancestor, the inner loop: the components of the base that follow
\* its first, against those of the path.  bi and pi are the places of the
\* next components of the two iterators.
find_ancestor_matching(base_components, path_components, ancestors_, bi, pi, ancestor_index) ==
    IF bi > Len(base_components) THEN Some(ancestors_[ancestor_index + 1])
    ELSE IF pi > Len(path_components) THEN None
    ELSE IF path_components[pi] = base_components[bi]
    THEN find_ancestor_matching(base_components, path_components, ancestors_,
                                bi + 1, pi + 1, ancestor_index + 1)
    ELSE None

\* find_ancestor, the first ParentDir or Normal component of the base: a
\* "." that begins the path is stepped over.
find_ancestor_first(base_components, path_components, ancestors_, bi, pi) ==
    LET at == IF pi > Len(path_components) THEN 0
              ELSE IF path_components[pi].kind = "CurDir"
              THEN (IF pi + 1 <= Len(path_components) THEN pi + 1 ELSE 0)
              ELSE IF path_components[pi].kind \in {"ParentDir", "Normal"} THEN pi
              ELSE 0
    IN  IF at = 0 THEN None
        ELSE IF base_components[bi] # path_components[at] THEN None
        ELSE find_ancestor_matching(base_components, path_components, ancestors_,
                                    bi + 1, at + 1, 1)

\* Mutant of the end of the base: the path may go on with anything.
find_ancestor_end_of_base_any(path_components, ancestors_, pi) ==
    Some(ancestors_[1])

\* find_ancestor, the base having no ParentDir or Normal component.
find_ancestor_end_of_base(path_components, ancestors_, pi) ==
    IF pi > Len(path_components)
        \/ path_components[pi].kind \in {"CurDir", "ParentDir", "Normal"}
    THEN Some(ancestors_[1])
    ELSE None

RECURSIVE find_ancestor_loop(_, _, _, _, _)
\* find_ancestor, the outer loop.
find_ancestor_loop(base_components, path_components, ancestors_, bi, pi) ==
    IF bi > Len(base_components)
    THEN find_ancestor_end_of_base(path_components, ancestors_, pi)
    ELSE CASE base_components[bi].kind = "RootDir" ->
                IF pi <= Len(path_components) /\ path_components[pi] = RootDir
                THEN find_ancestor_loop(base_components, path_components,
                                        ancestors_, bi + 1, pi + 1)
                ELSE None
           [] base_components[bi].kind = "CurDir" ->
                find_ancestor_loop(base_components, path_components,
                                   ancestors_, bi + 1, pi)
           [] OTHER ->
                find_ancestor_first(base_components, path_components,
                                    ancestors_, bi, pi)

\* find_ancestor
find_ancestor(base, path) ==
    find_ancestor_loop(components(base), components(path), ancestors(path), 1, 1)

\* A piece of the text of a path that is no component after the front of
\* the path: "." and the empty piece that a "/" leaves when it ends the
\* text or follows another "/".
NoComponent(name) == name = "." \/ name = ""

RECURSIVE TrimCurDirsBack(_)
\* Components::as_path, trim_right: the pieces after the last component
\* that are no components are not part of what is left.
TrimCurDirsBack(names) ==
    IF names # <<>> /\ NoComponent(names[Len(names)])
    THEN TrimCurDirsBack(SubSeq(names, 1, Len(names) - 1))
    ELSE names

RECURSIVE TrimCurDirs(_)
\* Components::as_path, once the iterator has left the front of the path:
\* neither the pieces before the next component that are no components
\* (trim_left) nor those after the last one (trim_right) are part of what
\* is left.
TrimCurDirs(names) ==
    IF names # <<>> /\ NoComponent(names[1]) THEN TrimCurDirs(Tail(names))
    ELSE TrimCurDirsBack(names)

\* The place of the n-th of the names of `path` that are components, 0 for
\* n = 0.
PlaceOfComponent(path, n) ==
    IF n = 0 THEN 0
    ELSE CHOOSE i \in ComponentPlaces(path) :
            Cardinality({j \in ComponentPlaces(path) : j <= i}) = n

\* Path::strip_prefix: the components of `prefix` are to begin those of
\* `path`; the rest of the path is what follows them in its text, up to
\* its last component.  With no component taken the front of the path is
\* as it is, the "." that begins a relative path too.
strip_prefix(path, prefix) ==
    LET path_components == components(path)
        prefix_components == components(prefix)
        k == Len(prefix_components)
    IN  IF k > Len(path_components)
            \/ SubSeq(path_components, 1, k) # prefix_components
        THEN Err("StripPrefixError")
        ELSE IF k = 0
        THEN [ok |-> TRUE,
              value |-> IF ~ path.root /\ path.names # <<>> /\ path.names[1] = "."
                        THEN PathOf(FALSE, <<".">> \o TrimCurDirsBack(Tail(path.names)))
                        ELSE PathOf(path.root, TrimCurDirsBack(path.names))]
        ELSE LET n == PlaceOfComponent(path, IF path.root THEN k - 1 ELSE k)
             IN  [ok |-> TRUE,
                  value |-> PathOf(FALSE,
                      TrimCurDirs(SubSeq(path.names, n + 1, Len(path.names))))]

\* strip_ancestor
strip_ancestor(base, path) ==
    LET ancestor == find_ancestor(base, path)
    IN  IF ancestor = None THEN Err("BaseNotAnAcestorError")
        ELSE LET stripped == strip_prefix(path, ancestor.some)
             IN  IF stripped.ok THEN stripped ELSE Err("BaseNotAnAcestorError")

\* Path::join (PathBuf::push): an absolute `path` replaces `self`; else it
\* follows it, after a "/" unless `self` is empty or ends with one: an
\* empty `path` leaves that "/" at the end.
join(self, path) ==
    LET need_sep == self.names # <<>> /\ self.names[Len(self.names)] # ""
        front == IF need_sep THEN self.names
                 ELSE SubSeq(self.names, 1, Len(self.names) - 1)
    IN  IF path.root THEN path
        ELSE IF path.names = <<>>
        THEN PathOf(self.root, IF need_sep THEN self.names \o <<"">> ELSE self.names)
        ELSE PathOf(self.root, front \o path.names)

\* abbreviate_path
abbreviate_path(base, abbreviation, path) ==
    LET relative_path == strip_ancestor(base, path)
    IN  IF relative_path.ok
        THEN [ok |-> TRUE, value |-> join(abbreviation, relative_path.value)]
        ELSE relative_path

Abbreviations ==
    {PathOf(FALSE, <<"~">>), PathOf(FALSE, <<>>), PathOf(TRUE, <<"a">>)}

RECURSIVE SeqsUpTo(_, _)
\* The sequences of at most n members of S.
SeqsUpTo(S, n) ==
    IF n = 0 THEN {<<>>}
    ELSE LET shorter == SeqsUpTo(S, n - 1)
         IN  shorter \cup {Append(s, x) : s \in shorter, x \in S}

BasePaths == {PathOf(root, names) : root \in BOOLEAN, names \in SeqsUpTo(Names, MaxBaseNames)}
Paths == {PathOf(root, names) : root \in BOOLEAN, names \in SeqsUpTo(Names, MaxPathNames)}

(***************************************************************************)
(* SpecPath: find_ancestor as a pure function, on every base of BasePaths  *)
(* and every path of Paths.                                                *)
(***************************************************************************)
PathInit ==
    /\ ansi = [writer |-> <<>>, style |-> Style_default]
    /\ not_styled = [writer |-> <<>>, style |-> Style_default]
    /\ calls = <<>>
    /\ alg = None /\ macro = None
    /\ pure \in [pc : {"input"}, base : BasePaths, path : Paths]

FindAncestor ==
    /\ pure # None /\ pure.pc = "input"
    /\ pure' = [pc |-> "found", base |-> pure.base, path |-> pure.path,
                result |-> find_ancestor(pure.base, pure.path)]
    /\ UNCHANGED <<writerVars, alg, macro>>

AbbreviatePath ==
    /\ pure # None /\ pure.pc = "input"
    /\ \E abbreviation \in Abbreviations :
        pure' = [pc |-> "abbreviated", base |-> pure.base, path |-> pure.path,
                 abbreviation |-> abbreviation,
                 result |-> abbreviate_path(pure.base, abbreviation, pure.path)]
    /\ UNCHANGED <<writerVars, alg, macro>>

PathNext == FindAncestor \/ AbbreviatePath

SpecPath == PathInit /\ [][PathNext]_vars

(***************************************************************************)
(* fmt/git.rs: write_status_summary, write_change_summary                  *)
(*                                                                         *)
(* The text a call writes to a sink that accepts everything, one character *)
(* per element.                                                            *)
(***************************************************************************)
MaxCount == 2

ChangeSummary(added, modified, deleted) == [added |-> added, modified |-> modified, deleted |-> deleted]

ChangeSummaries == {ChangeSummary(a, m, d) : a \in 0..MaxCount, m \in 0..MaxCount, d \in 0..MaxCount}

StatusSummary(working_tree, staging, conflicted) == [working_tree |-> working_tree, staging |-> staging, conflicted |-> conflicted]

StatusSummaries == {StatusSummary(w, s, c) : w \in ChangeSummaries, s \in ChangeSummaries, c \in 0..MaxCount}

any_changes(self) == self.added # 0 \/ self.modified # 0 \/ self.deleted # 0

\* write!(writer, " ") when something was written before.
Preceded(is_preceded) == IF is_preceded THEN <<" ">> ELSE <<>>

write_change_summary(changes) ==
    LET added == IF changes.added # 0 THEN <<"+">> \o Dec(changes.added) ELSE <<>>
        preceded_1 == changes.added # 0
        modified == IF changes.modified # 0
                    THEN Preceded(preceded_1) \o <<"~">> \o Dec(changes.modified)
                    ELSE <<>>
        preceded_2 == preceded_1 \/ changes.modified # 0
        deleted == IF changes.deleted # 0
                   THEN Preceded(preceded_2) \o <<"-">> \o Dec(changes.deleted)
                   ELSE <<>>
    IN  added \o modified \o deleted

write_status_summary(status) ==
    LET staging == IF any_changes(status.staging)
                   THEN write_change_summary(status.staging)
                   ELSE <<>>
        preceded_1 == any_changes(status.staging)
        working_tree == IF any_changes(status.working_tree)
                        THEN Preceded(preceded_1) \o <<"|", " ">>
                             \o write_change_summary(status.working_tree)
                        ELSE <<>>
        preceded_2 == preceded_1 \/ any_changes(status.working_tree)
        conflicted == IF status.conflicted # 0
                      THEN Preceded(preceded_2) \o <<"!">> \o Dec(status.conflicted)
                      ELSE <<>>
    IN  staging \o working_tree \o conflicted

(***************************************************************************)
(* SpecGit: write_status_summary as a pure function of a StatusSummary     *)
(* with counts up to MaxCount.                                             *)
(***************************************************************************)
GitInit ==
    /\ ansi = [writer |-> <<>>, style |-> Style_default]
    /\ not_styled = [writer |-> <<>>, style |-> Style_default]
    /\ calls = <<>>
    /\ alg = None /\ macro = None
    /\ pure \in [pc : {"input"}, status : StatusSummaries]

WriteStatusSummary ==
    /\ pure # None /\ pure.pc = "input"
    /\ pure' = [pc |-> "written", status |-> pure.status,
                written |-> write_status_summary(pure.status)]
    /\ UNCHANGED <<writerVars, alg, macro>>

GitNext == WriteStatusSummary

SpecGit == GitInit /\ [][GitNext]_vars

(***************************************************************************)
(* io::Write of both writers: the byte-writing methods forward to the      *)
(* sink.  fmt/command_result.rs: write_exit_code_symbol.                   *)
(***************************************************************************)
MaxSunk == 14

\* The sink of a call, after n of the bytes it accepts have been written.
Remaining(cap, n) ==
    IF cap.fails THEN FailAfter(cap.accepted - n, cap.error) ELSE cap

\* write_fmt of a writer in `style`: self.writer.write_fmt(fmt).
write_fmt(style, text, cap) ==
    Propagate([out |-> text, style |-> style], cap, style)

\* "{}" of an i32.
Display_i32(n) == IF n < 0 THEN <<"-">> \o Dec(0 - n) ELSE Dec(n)

ExitCode(code) == code
is_success(self) == self = 0
is_failure(self) == ~ is_success(self)

When == {"Never", "OnError", "Always"}

\* The UTF-8 bytes of the default symbols.
DEFAULT_SUCCESS_SYMBOL == <<"E2", "9C", "94">>
DEFAULT_ERROR_SYMBOL == <<"E2", "9C", "98">>
DEFAULT_SUCCESS_STYLE_CHANGE == [KEEP EXCEPT !.foreground = SetTo(Color4Bit(BRIGHT_BIT + GREEN_BIT))]
DEFAULT_ERROR_STYLE_CHANGE == [KEEP EXCEPT !.foreground = SetTo(Color4Bit(BRIGHT_RED))]

\* Mutant of write_exit_code_symbol's show_code: OnError shows the code of
\* a success too.
show_code_on_error_always(exit_code, show_code_when) ==
    IF is_success(exit_code) THEN show_code_when \in {"Always", "OnError"}
    ELSE show_code_when \in {"Always", "OnError"}

\* write_exit_code_symbol: `show_code`.
show_code(exit_code, show_code_when) ==
    IF is_success(exit_code) THEN show_code_when \in {"Always"}
    ELSE show_code_when \in {"Always", "OnError"}

\* The outcome of a step that follows the outcome `before` of the steps
\* before it: `?` returns the first error, with the bytes sunk so far.
Then(before, step) ==
    IF before.ret # Ok THEN before
    ELSE [ret |-> step.ret, out |-> before.out \o step.out, style |-> step.style]

write_exit_code_symbol(backend, style, exit_code, success_symbol, success_style_change, error_symbol, error_style_change, show_code_when, cap) ==
    LET style_change == IF is_success(exit_code) THEN success_style_change
                        ELSE error_style_change
        revert == revert_style_change("with_style", style_change, style)
        first == StyledWrite_call(backend, style,
                                  first_style_op("with_style", style_change), cap)
        symbol == Then(first,
                       write_fmt(first.style,
                                 IF is_success(exit_code) THEN success_symbol
                                 ELSE error_symbol,
                                 Remaining(cap, Len(first.out))))
        code == IF show_code(exit_code, show_code_when)
                THEN Then(symbol,
                          write_fmt(symbol.style, <<" ">> \o Display_i32(exit_code),
                                    Remaining(cap, Len(symbol.out))))
                ELSE symbol
    IN  Then(code,
             StyledWrite_call(backend, code.style,
                              second_style_op("with_style", revert),
                              Remaining(cap, Len(code.out))))

(***************************************************************************)
(* SpecExit: one call of write_exit_code_symbol on a writer of either      *)
(* backend, whose sink never fails or fails after up to MaxSunk bytes.     *)
(***************************************************************************)
ExitCodes == {ExitCode(code) : code \in {-1, 0, 1, 130}}

ExitSymbols == {DEFAULT_SUCCESS_SYMBOL, DEFAULT_ERROR_SYMBOL}

ExitStyles ==
    {Style_default,
     [Style_default EXCEPT !.foreground = Color4Bit(BRIGHT_RED), !.bold = TRUE]}

ExitChanges ==
    {KEEP, DEFAULT_SUCCESS_STYLE_CHANGE, DEFAULT_ERROR_STYLE_CHANGE,
     [KEEP EXCEPT !.bold = SetTo(TRUE), !.background = SetTo(ANSI256(200))]}

ExitCaps == {NoFail} \cup {FailAfter(n, "BrokenPipe") : n \in 0..MaxSunk}

ExitInit ==
    /\ ansi = [writer |-> <<>>, style |-> Style_default]
    /\ not_styled = [writer |-> <<>>, style |-> Style_default]
    /\ calls = <<>>
    /\ alg = None /\ macro = None
    /\ pure \in [pc : {"input"}, backend : Backends, style : ExitStyles,
                 exit_code : ExitCodes,
                 success_symbol : ExitSymbols,
                 success_style_change : ExitChanges,
                 error_symbol : ExitSymbols,
                 error_style_change : ExitChanges,
                 show_code_when : When]

WriteExitCodeSymbol ==
    /\ pure # None /\ pure.pc = "input"
    /\ \E cap \in ExitCaps :
        LET r == write_exit_code_symbol(pure.backend, pure.style, pure.exit_code,
                                        pure.success_symbol, pure.success_style_change,
                                        pure.error_symbol, pure.error_style_change,
                                        pure.show_code_when, cap)
        IN  pure' = [pc |-> "written", backend |-> pure.backend,
                     before |-> pure.style, exit_code |-> pure.exit_code,
                     success_symbol |-> pure.success_symbol,
                     success_style_change |-> pure.success_style_change,
                     error_symbol |-> pure.error_symbol,
                     error_style_change |-> pure.error_style_change,
                     show_code_when |-> pure.show_code_when, cap |-> cap,
                     ret |-> r.ret, out |-> r.out, style |-> r.style]
    /\ UNCHANGED <<writerVars, alg, macro>>

ExitNext == WriteExitCodeSymbol

SpecExit == ExitInit /\ [][ExitNext]_vars

(***************************************************************************)
(* fmt/duration.rs: HumanDuration                                          *)
(*                                                                         *)
(* A u128 is the sequence of its digits in base 1000, most significant     *)
(* first and not 0 (0 is the empty sequence), so that totals of            *)
(* nanoseconds that amount to days are within the integers of the model.   *)
(* The other components are integers.                                      *)
(***************************************************************************)
MaxLimbs == 5

Limb == 1000

RECURSIVE u128_normal(_)
\* A sequence of digits without the zeros it begins with.
u128_normal(limbs) ==
    IF limbs # <<>> /\ Head(limbs) = 0 THEN u128_normal(Tail(limbs)) ELSE limbs

RECURSIVE u128_div_rem(_, _, _, _, _)
\* n / d and n % d of a u128 n and an integer d in 1..Limb, by long
\* division from digit i on.
u128_div_rem(n, d, i, quotient, remainder) ==
    IF i > Len(n) THEN [quotient |-> u128_normal(quotient), remainder |-> remainder]
    ELSE LET current == remainder * Limb + n[i]
         IN  u128_div_rem(n, d, i + 1, Append(quotient, current \div d), current % d)

\* n / d
u128_div(n, d) == u128_div_rem(n, d, 1, <<>>, 0).quotient

\* n % d
u128_rem(n, d) == u128_div_rem(n, d, 1, <<>>, 0).remainder

\* `as u8`, `as u16`
as_u8(n) == n % 256
as_u16(n) == n % 65536

HumanDuration(days, hours, minutes, seconds, milliseconds, microseconds, nanoseconds) == [days |-> days, hours |-> hours, minutes |-> minutes, seconds |-> seconds, milliseconds |-> milliseconds, microseconds |-> microseconds, nanoseconds |-> nanoseconds]

\* Mutant of from_hours: the hours are not reduced.
from_hours_not_reduced(hours) ==
    LET days == u128_div(hours, 24)
        hours_ == as_u8(u128_rem(hours, 60))
    IN  HumanDuration(days, hours_, 0, 0, 0, 0, 0)

from_days(days) == HumanDuration(days, 0, 0, 0, 0, 0, 0)

from_hours(hours) ==
    LET days == u128_div(hours, 24)
        hours_ == as_u8(u128_rem(hours, 24))
    IN  HumanDuration(days, hours_, 0, 0, 0, 0, 0)

from_minutes(minutes) ==
    LET hours == u128_div(minutes, 60)
        minutes_ == as_u8(u128_rem(minutes, 60))
        days == u128_div(hours, 24)
        hours_ == as_u8(u128_rem(hours, 24))
    IN  HumanDuration(days, hours_, minutes_, 0, 0, 0, 0)

from_seconds(seconds) ==
    LET minutes == u128_div(seconds, 60)
        seconds_ == as_u8(u128_rem(seconds, 60))
        hours == u128_div(minutes, 60)
        minutes_ == as_u8(u128_rem(minutes, 60))
        days == u128_div(hours, 24)
        hours_ == as_u8(u128_rem(hours, 24))
    IN  HumanDuration(days, hours_, minutes_, seconds_, 0, 0, 0)

from_milliseconds(milliseconds) ==
    LET seconds == u128_div(milliseconds, 1000)
        milliseconds_ == as_u16(u128_rem(milliseconds, 1000))
        minutes == u128_div(seconds, 60)
        seconds_ == as_u8(u128_rem(seconds, 60))
        hours == u128_div(minutes, 60)
        minutes_ == as_u8(u128_rem(minutes, 60))
        days == u128_div(hours, 24)
        hours_ == as_u8(u128_rem(hours, 24))
    IN  HumanDuration(days, hours_, minutes_, seconds_, milliseconds_, 0, 0)

from_microseconds(microseconds) ==
    LET milliseconds == u128_div(microseconds, 1000)
        microseconds_ == as_u16(u128_rem(microseconds, 1000))
        seconds == u128_div(milliseconds, 1000)
        milliseconds_ == as_u16(u128_rem(milliseconds, 1000))
        minutes == u128_div(seconds, 60)
        seconds_ == as_u8(u128_rem(seconds, 60))
        hours == u128_div(minutes, 60)
        minutes_ == as_u8(u128_rem(minutes, 60))
        days == u128_div(hours, 24)
        hours_ == as_u8(u128_rem(hours, 24))
    IN  HumanDuration(days, hours_, minutes_, seconds_, milliseconds_,
                      microseconds_, 0)

from_nanoseconds(nanoseconds) ==
    LET microseconds == u128_div(nanoseconds, 1000)
        nanoseconds_ == as_u16(u128_rem(nanoseconds, 1000))
        milliseconds == u128_div(microseconds, 1000)
        microseconds_ == as_u16(u128_rem(microseconds, 1000))
        seconds == u128_div(milliseconds, 1000)
        milliseconds_ == as_u16(u128_rem(milliseconds, 1000))
        minutes == u128_div(seconds, 60)
        seconds_ == as_u8(u128_rem(seconds, 60))
        hours == u128_div(minutes, 60)
        minutes_ == as_u8(u128_rem(minutes, 60))
        days == u128_div(hours, 24)
        hours_ == as_u8(u128_rem(hours, 24))
    IN  HumanDuration(days, hours_, minutes_, seconds_, milliseconds_,
                      microseconds_, nanoseconds_)

(***************************************************************************)
(* SpecDuration: the constructors of HumanDuration from a total, on totals *)
(* of up to MaxLimbs digits in base 1000.                                  *)
(***************************************************************************)
LimbValues == {0, 1, 86, 400, 999}

Totals ==
    UNION {{n \in [1..len -> LimbValues] : len > 0 => n[1] # 0} : len \in 0..MaxLimbs}

Units == {"nanoseconds", "microseconds", "milliseconds", "seconds", "minutes", "hours", "days"}

DurationInit ==
    /\ ansi = [writer |-> <<>>, style |-> Style_default]
    /\ not_styled = [writer |-> <<>>, style |-> Style_default]
    /\ calls = <<>>
    /\ alg = None /\ macro = None
    /\ pure \in [pc : {"input"}, total : Totals]

\* HumanDuration::from_<unit>(total) has returned `duration`.
Constructed(unit, duration) ==
    /\ pure # None /\ pure.pc = "input"
    /\ pure' = [pc |-> "constructed", unit |-> unit, total |-> pure.total,
                duration |-> duration]
    /\ UNCHANGED <<writerVars, alg, macro>>

FromNanoseconds == Constructed("nanoseconds", from_nanoseconds(pure.total))
FromMicroseconds == Constructed("microseconds", from_microseconds(pure.total))
FromMilliseconds == Constructed("milliseconds", from_milliseconds(pure.total))
FromSeconds == Constructed("seconds", from_seconds(pure.total))
FromMinutes == Constructed("minutes", from_minutes(pure.total))
FromHours == Constructed("hours", from_hours(pure.total))
FromDays == Constructed("days", from_days(pure.total))

DurationNext ==
    \/ FromNanoseconds
    \/ FromMicroseconds
    \/ FromMilliseconds
    \/ FromSeconds
    \/ FromMinutes
    \/ FromHours
    \/ FromDays

SpecDuration == DurationInit /\ [][DurationNext]_vars

(***************************************************************************)
(* fmt/duration.rs: write_skip_high_and_low_zeros, as the text it writes   *)
(* to a sink that accepts everything.                                      *)
(***************************************************************************)
\* The three decimal digits of a digit in base 1000.
LimbDigits(limb) ==
    <<DigitChars[(limb \div 100) + 1], DigitChars[((limb \div 10) % 10) + 1], DigitChars[(limb % 10) + 1]>>

RECURSIVE LimbsDigits(_)
LimbsDigits(limbs) ==
    IF limbs = <<>> THEN <<>> ELSE LimbDigits(Head(limbs)) \o LimbsDigits(Tail(limbs))

\* "{}" of a u128.
Display_u128(n) ==
    IF n = <<>> THEN <<"0">> ELSE Dec(Head(n)) \o LimbsDigits(Tail(n))

\* Mutant of write_part!: a component that is 0 is never written.
write_part_nonzero_only(acc, nonzero, text) ==
    IF acc.returned THEN acc
    ELSE IF acc.write_count >= 1
         THEN IF nonzero
              THEN [acc EXCEPT !.out = @ \o (IF ~ acc.is_first THEN <<" ">> ELSE <<>>)
                                         \o text,
                               !.is_first = FALSE,
                               !.write_count = @ - 1]
              ELSE [acc EXCEPT !.write_count = @ - 1]
         ELSE [acc EXCEPT !.returned = TRUE]

\* write_part!($format, $value): `nonzero` is $value != 0, `text` what the
\* format writes of the value.
write_part(acc, nonzero, text) ==
    IF acc.returned THEN acc
    ELSE IF acc.write_count >= 1
         THEN IF nonzero \/ ~ acc.is_first
              THEN [acc EXCEPT !.out = @ \o (IF ~ acc.is_first THEN <<" ">> ELSE <<>>)
                                         \o text,
                               !.is_first = FALSE,
                               !.write_count = @ - 1]
              ELSE [acc EXCEPT !.write_count = @ - 1]
         ELSE [acc EXCEPT !.returned = TRUE]

write_skip_high_and_low_zeros(duration) ==
    LET write_count == IF duration.nanoseconds # 0 THEN 7
                       ELSE IF duration.microseconds # 0 THEN 6
                       ELSE IF duration.milliseconds # 0 THEN 5
                       ELSE IF duration.seconds # 0 THEN 4
                       ELSE IF duration.minutes # 0 THEN 3
                       ELSE IF duration.hours # 0 THEN 2
                       ELSE IF duration.days # <<>> THEN 1
                       ELSE 0
        start == [is_first |-> TRUE, write_count |-> write_count, out |-> <<>>,
                  returned |-> FALSE]
        days == write_part(start, duration.days # <<>>,
                           Display_u128(duration.days) \o <<"d">>)
        hours == write_part(days, duration.hours # 0,
                            Dec(duration.hours) \o <<"h">>)
        minutes == write_part(hours, duration.minutes # 0,
                              Dec(duration.minutes) \o <<"m">>)
        seconds == write_part(minutes, duration.seconds # 0,
                              Dec(duration.seconds) \o <<"s">>)
        milliseconds == write_part(seconds, duration.milliseconds # 0,
                                   Dec(duration.milliseconds) \o <<"m", "s">>)
        microseconds == write_part(milliseconds, duration.microseconds # 0,
                                   Dec(duration.microseconds) \o <<"C2", "B5", "s">>)
        nanoseconds == write_part(microseconds, duration.nanoseconds # 0,
                                  Dec(duration.nanoseconds) \o <<"n", "s">>)
    IN  [ret |-> Ok, out |-> nanoseconds.out]

(***************************************************************************)
(* SpecHuman: write_skip_high_and_low_zeros on durations whose components  *)
(* are 0, small or the largest.                                            *)
(***************************************************************************)
HumanDurations ==
    {HumanDuration(d, h, m, s, ms, us, ns) :
        d \in {<<>>, <<2>>, <<1, 0>>}, h \in {0, 23}, m \in {0, 5}, s \in {0, 59},
        ms \in {0, 999}, us \in {0, 1}, ns \in {0, 10}}

HumanInit ==
    /\ ansi = [writer |-> <<>>, style |-> Style_default]
    /\ not_styled = [writer |-> <<>>, style |-> Style_default]
    /\ calls = <<>>
    /\ alg = None /\ macro = None
    /\ pure \in [pc : {"input"}, duration : HumanDurations]

WriteSkipHighAndLowZeros ==
    /\ pure # None /\ pure.pc = "input"
    /\ LET r == write_skip_high_and_low_zeros(pure.duration)
       IN  pure' = [pc |-> "written", duration |-> pure.duration,
                    ret |-> r.ret, out |-> r.out]
    /\ UNCHANGED <<writerVars, alg, macro>>

HumanNext == WriteSkipHighAndLowZeros

SpecHuman == HumanInit /\ [][HumanNext]_vars

(***************************************************************************)
(* fmt/path.rs: write_with_middle_hidden, write_short, as the text they    *)
(* write to a sink that accepts everything.  The text of a component is    *)
(* one element; Unix paths have no Component::Prefix.                      *)
(***************************************************************************)
\* component.as_os_str().to_string_lossy()
as_os_str(component) ==
    CASE component = RootDir -> <<"/">>
      [] component = CurDir -> <<".">>
      [] component = ParentDir -> <<"..">>
      [] OTHER -> <<component.name>>

\* The match on `first` when there is a `last`: the root dir or its
\* override and the root separator, or the component and the separator.
write_first(first, separator, root_separator, root_dir_override) ==
    IF first = RootDir
    THEN (IF root_dir_override # None THEN root_dir_override.some
          ELSE as_os_str(RootDir)) \o root_separator
    ELSE as_os_str(first) \o separator

RECURSIVE Repeated(_, _)
\* `for _ in 0..count { write!(writer, ..)?; }`
Repeated(text, count) ==
    IF count = 0 THEN <<>> ELSE text \o Repeated(text, count - 1)

write_with_middle_hidden(path, separator, root_separator, root_dir_override, replacement) ==
    LET components_ == components(path)
    IN  IF components_ = <<>> THEN [ret |-> Ok, out |-> <<>>]
        ELSE LET first == Head(components_)
                 rest == Tail(components_)
             IN  IF rest = <<>> THEN [ret |-> Ok, out |-> as_os_str(first)]
                 ELSE LET last == rest[Len(rest)]
                          count == Len(rest) - 1
                      IN  [ret |-> Ok,
                           out |-> write_first(first, separator, root_separator,
                                               root_dir_override)
                                   \o Repeated(replacement \o separator, count)
                                   \o as_os_str(last)]

\* Mutant of write_short: the replacement is written for every
\* intermediate component.
write_short_for_each(path, separator, root_separator, root_dir_override, replacement) ==
    write_with_middle_hidden(path, separator, root_separator, root_dir_override,
                             replacement)

write_short(path, separator, root_separator, root_dir_override, replacement) ==
    LET components_ == components(path)
    IN  IF components_ = <<>> THEN [ret |-> Ok, out |-> <<>>]
        ELSE LET first == Head(components_)
                 rest == Tail(components_)
             IN  IF rest = <<>> THEN [ret |-> Ok, out |-> as_os_str(first)]
                 ELSE LET last == rest[Len(rest)]
                          middle == SubSeq(rest, 1, Len(rest) - 1)
                      IN  [ret |-> Ok,
                           out |-> write_first(first, separator, root_separator,
                                               root_dir_override)
                                   \o (IF middle # <<>> THEN replacement \o separator
                                       ELSE <<>>)
                                   \o as_os_str(last)]

(***************************************************************************)
(* SpecShort: write_with_middle_hidden and write_short on every path of    *)
(* Paths.                                                                  *)
(***************************************************************************)
Separators == {<<"/">>, <<" ", ">", " ">>}
RootSeparators == {<<>>, <<"/">>}
RootDirOverrides == {None, Some(<<"C", ":">>)}
Replacements == {<<"*">>}

ShortInit ==
    /\ ansi = [writer |-> <<>>, style |-> Style_default]
    /\ not_styled = [writer |-> <<>>, style |-> Style_default]
    /\ calls = <<>>
    /\ alg = None /\ macro = None
    /\ pure \in [pc : {"input"}, path : Paths, separator : Separators,
                 root_separator : RootSeparators,
                 root_dir_override : RootDirOverrides,
                 replacement : Replacements]

\* The function `called` has returned r.
PathWritten(called, r) ==
    /\ pure # None /\ pure.pc = "input"
    /\ pure' = [pc |-> "written", called |-> called, path |-> pure.path,
                separator |-> pure.separator,
                root_separator |-> pure.root_separator,
                root_dir_override |-> pure.root_dir_override,
                replacement |-> pure.replacement,
                ret |-> r.ret, out |-> r.out]
    /\ UNCHANGED <<writerVars, alg, macro>>

WriteWithMiddleHidden ==
    PathWritten("write_with_middle_hidden",
                write_with_middle_hidden(pure.path, pure.separator,
                                         pure.root_separator,
                                         pure.root_dir_override, pure.replacement))

WriteShort ==
    PathWritten("write_short",
                write_short(pure.path, pure.separator, pure.root_separator,
                            pure.root_dir_override, pure.replacement))

ShortNext == WriteWithMiddleHidden \/ WriteShort

SpecShort == ShortInit /\ [][ShortNext]_vars

(***************************************************************************)
(* SpecNested: on a writer of either backend in style s, change_style(c),  *)
(* change_style(d), change_style(c.reverting_to(s)), the revert taken in   *)
(* style s as with_style! takes it; sinks that never fail.                 *)
(***************************************************************************)
\* The style changes applied between a change and its revert.
NestedChanges ==
    MacroChanges
        \cup {[KEEP EXCEPT !.underline = SetTo(TRUE)],
              [KEEP EXCEPT !.background = SetTo(Color4Bit(DARK_CYAN))],
              [KEEP EXCEPT !.foreground = SetTo(Color4Bit(BRIGHT_RED)),
                           !.underline = SetTo(TRUE)],
              [KEEP EXCEPT !.bold = SetTo(TRUE), !.dim = SetTo(TRUE)]}

NestedInit ==
    /\ ansi = [writer |-> <<>>, style |-> Style_default]
    /\ not_styled = [writer |-> <<>>, style |-> Style_default]
    /\ calls = <<>>
    /\ alg \in [pc : {"input"}, backend : Backends, s : MacroStyles,
                c : MacroChanges, d : NestedChanges]
    /\ macro = None
    /\ pure = None

ChangeBetweenApplyAndRevert ==
    /\ alg # None /\ alg.pc = "input"
    /\ LET revert == reverting_to(alg.c, alg.s)
           applied == StyledWrite_call(alg.backend, alg.s,
                                       StyleOp("change_style", alg.c), NoFail)
           between == StyledWrite_call(alg.backend, applied.style,
                                       StyleOp("change_style", alg.d), NoFail)
           reverted == StyledWrite_call(alg.backend, between.style,
                                        StyleOp("change_style", revert), NoFail)
       IN  alg' = [pc |-> "reverted_after", backend |-> alg.backend,
                   s |-> alg.s, c |-> alg.c, d |-> alg.d,
                   applied |-> applied.style, between |-> between.style,
                   reverted |-> reverted.style]
    /\ UNCHANGED <<writerVars, macro, pure>>

NestedNext == ChangeBetweenApplyAndRevert

SpecNested == NestedInit /\ [][NestedNext]_vars

(***************************************************************************)
(* io::Write of ANSIStyledWriter and NotStyledWriter: each method calls    *)
(* the method of the same name on the sink.  A sink that fails after       *)
(* `accepted` bytes takes as many of a `write`, and fails a `write` or a   *)
(* `flush` once it takes none.                                             *)
(***************************************************************************)
\* Mutant of write_all: the style is reset.
write_all_resets_style(style, buf, cap) ==
    Propagate([out |-> buf, style |-> Style_default], cap, Style_default)

\* write_all: self.writer.write_all(buf)
write_all(style, buf, cap) ==
    Propagate([out |-> buf, style |-> style], cap, style)

\* write: self.writer.write(buf), Ok of the number of bytes written.
write(style, buf, cap) ==
    IF ~ cap.fails \/ Len(buf) <= cap.accepted
    THEN [ret |-> OkValue(Len(buf)), out |-> buf, style |-> style]
    ELSE IF cap.accepted = 0
    THEN [ret |-> Err(cap.error), out |-> <<>>, style |-> style]
    ELSE [ret |-> OkValue(cap.accepted), out |-> SubSeq(buf, 1, cap.accepted),
          style |-> style]

\* write_vectored: self.writer.write_vectored(bufs); the sink writes the
\* first buffer that is not empty.
write_vectored(style, bufs, cap) ==
    LET nonempty == SelectSeq(bufs, LAMBDA buf : buf # <<>>)
    IN  write(style, IF nonempty = <<>> THEN <<>> ELSE Head(nonempty), cap)

\* flush: self.writer.flush()
flush(style, cap) ==
    IF cap.fails /\ cap.accepted = 0
    THEN [ret |-> Err(cap.error), out |-> <<>>, style |-> style]
    ELSE [ret |-> Ok, out |-> <<>>, style |-> style]

(***************************************************************************)
(* SpecSink: calls, one after another, on a writer of either backend made  *)
(* by new(); each call meets a sink that never fails or fails after some   *)
(* bytes (up to MaxSunk for a style operation, up to MaxAccepted for the   *)
(* others).  `calls` is the last call: what was called, with what,         *)
(* the style before it, the bytes it wrote and what it returned; the       *)
(* writer's `writer` is the bytes of the last call.                        *)
(***************************************************************************)
SinkCaps == {NoFail} \cup {FailAfter(n, "BrokenPipe") : n \in 0..MaxSunk}

SinkChanges ==
    {KEEP, RESET,
     [KEEP EXCEPT !.foreground = SetTo(ANSI256(200))],
     [KEEP EXCEPT !.foreground = SetTo(Unset), !.bold = SetTo(FALSE)],
     [KEEP EXCEPT !.background = SetTo(RGB(0, 64, 255)), !.italic = SetTo(TRUE)],
     [KEEP EXCEPT !.bold = SetTo(TRUE), !.dim = SetTo(TRUE)]}

SinkBufs == {<<>>, <<"a">>, <<"a", "b", "c">>}

SinkVectors == {<<>>, << <<>>, <<"a", "b">> >>, << <<"a">>, <<"b", "c">> >>}

StyleOpNames == {"change_style", "reset_style", "swap_colors"}

\* new(writer)
new(backend) ==
    [op |-> "new", backend |-> backend, arg |-> KEEP, cap |-> NoFail,
     before |-> Style_default, out |-> <<>>, ret |-> Ok]

SinkInit ==
    /\ ansi = [writer |-> <<>>, style |-> Style_default]
    /\ not_styled = [writer |-> <<>>, style |-> Style_default]
    /\ \E backend \in Backends : calls = <<new(backend)>>
    /\ AlgIdle

\* The writer the calls are made on.
SinkWriter == IF calls[1].backend = "ansi" THEN ansi ELSE not_styled

\* The call `op` with argument `arg`, on a sink `cap`, has had outcome r.
SinkCalled(op, arg, cap, r) ==
    LET w == [writer |-> r.out, style |-> r.style]
    IN  /\ ansi' = IF calls[1].backend = "ansi" THEN w ELSE ansi
        /\ not_styled' = IF calls[1].backend = "ansi" THEN not_styled ELSE w
        /\ calls' = <<[op |-> op, backend |-> calls[1].backend, arg |-> arg,
                       cap |-> cap, before |-> SinkWriter.style,
                       out |-> r.out, ret |-> r.ret]>>
        /\ UNCHANGED algVars

SinkChangeStyle ==
    /\ Len(calls) = 1
    /\ \E change \in SinkChanges, cap \in SinkCaps :
        SinkCalled("change_style", change, cap,
                   StyledWrite_call(calls[1].backend, SinkWriter.style,
                                    StyleOp("change_style", change), cap))

SinkResetStyle ==
    /\ Len(calls) = 1
    /\ \E cap \in SinkCaps :
        SinkCalled("reset_style", KEEP, cap,
                   StyledWrite_call(calls[1].backend, SinkWriter.style,
                                    StyleOp("reset_style", KEEP), cap))

SinkSwapColors ==
    /\ Len(calls) = 1
    /\ \E cap \in SinkCaps :
        SinkCalled("swap_colors", KEEP, cap,
                   StyledWrite_call(calls[1].backend, SinkWriter.style,
                                    StyleOp("swap_colors", KEEP), cap))

SinkWrite ==
    /\ Len(calls) = 1
    /\ \E buf \in SinkBufs, cap \in Caps :
        SinkCalled("write", buf, cap, write(SinkWriter.style, buf, cap))

SinkWriteAll ==
    /\ Len(calls) = 1
    /\ \E buf \in SinkBufs, cap \in Caps :
        SinkCalled("write_all", buf, cap, write_all(SinkWriter.style, buf, cap))

SinkWriteVectored ==
    /\ Len(calls) = 1
    /\ \E bufs \in SinkVectors, cap \in Caps :
        SinkCalled("write_vectored", bufs, cap,
                   write_vectored(SinkWriter.style, bufs, cap))

SinkWriteFmt ==
    /\ Len(calls) = 1
    /\ \E text \in SinkBufs, cap \in Caps :
        SinkCalled("write_fmt", text, cap, write_fmt(SinkWriter.style, text, cap))

SinkFlush ==
    /\ Len(calls) = 1
    /\ \E cap \in Caps :
        SinkCalled("flush", <<>>, cap, flush(SinkWriter.style, cap))

SinkNext ==
    \/ SinkChangeStyle
    \/ SinkResetStyle
    \/ SinkSwapColors
    \/ SinkWrite
    \/ SinkWriteAll
    \/ SinkWriteVectored
    \/ SinkWriteFmt
    \/ SinkFlush

SpecSink == SinkInit /\ [][SinkNext]_vars

(***************************************************************************)
(* Claims.                                                                 *)
(***************************************************************************)

\* C1: for every Style s and StyleChange c, applying c to s and then
\* c.reverting_to(s) to the result gives s again.
RevertUndoesApply ==
    alg.pc = "reverted" => alg.reverted = alg.s

\* C1, witness: a change that gave two fields new values and kept others
\* has been applied and reverted.
RevertUndoesApplyWitness ==
    /\ alg.pc = "reverted"
    /\ alg.c.foreground.tag = "SetTo" /\ alg.applied.foreground # alg.s.foreground
    /\ alg.c.italic.tag = "SetTo" /\ alg.applied.italic # alg.s.italic
    /\ alg.c.bold.tag = "Keep" /\ alg.s.bold

\* C2: the style the ANSI writer records is the style a terminal that
\* started in the default style renders after reading everything the writer
\* wrote.
RecordedIsRendered == ansi.style = ansi.writer

\* C2, witness: the writer and the terminal are in a style with bold off,
\* dim on, italic on, a dark 4-bit foreground and an RGB background.
RecordedIsRenderedWitness ==
    /\ ~ ansi.style.bold /\ ansi.style.dim /\ ansi.style.italic
    /\ ansi.style.foreground = Color4Bit(DARK_CYAN)
    /\ ansi.style.background = RGB(255, 7, 64)
    /\ ansi.writer = ansi.style

\* C3: in lock-step, the NotStyledWriter writes no byte in any call and
\* its style is the ANSIStyledWriter's after every call.
NotStyledMatchesAnsi ==
    /\ not_styled.writer = <<>>
    /\ not_styled.style = ansi.style

\* C3, witness: both writers are in one style that calls have changed, with
\* different colours.
NotStyledMatchesAnsiWitness ==
    /\ not_styled.style = ansi.style
    /\ ansi.style.foreground = ANSI256(200)
    /\ ansi.style.background = Color4Bit(BRIGHT_RED)
    /\ ansi.style.strike /\ ansi.style.bold

(***************************************************************************)
(* What a call of SpecCalls did.                                           *)
(***************************************************************************)
\* The styles after call i.
AnsiAfter(i) ==
    IF i = Len(calls) THEN ansi.style ELSE calls[i + 1].ansi_before
NotStyledAfter(i) ==
    IF i = Len(calls) THEN not_styled.style ELSE calls[i + 1].not_styled_before

\* bold and dim are written together: they count as one field.
Group(f) == IF f \in {"bold", "dim"} THEN "bold_dim" ELSE f

RECURSIVE ParamFields(_, _)
\* The fields the SGR parameters of `ps`, from place i on, are about.
ParamFields(ps, i) ==
    IF i > Len(ps) THEN {}
    ELSE LET p == ps[i]
         IN  CASE p \in {1, 2, 22} -> {"bold_dim"} \cup ParamFields(ps, i + 1)
               [] p \in {3, 23} -> {"italic"} \cup ParamFields(ps, i + 1)
               [] p \in {4, 24} -> {"underline"} \cup ParamFields(ps, i + 1)
               [] p \in {5, 25} -> {"blink"} \cup ParamFields(ps, i + 1)
               [] p \in {9, 29} -> {"strike"} \cup ParamFields(ps, i + 1)
               [] p \in 30..37 \cup 90..97 \cup {39} ->
                    {"foreground"} \cup ParamFields(ps, i + 1)
               [] p \in 40..47 \cup 100..107 \cup {49} ->
                    {"background"} \cup ParamFields(ps, i + 1)
               [] p \in {38, 48} /\ i + 2 <= Len(ps) /\ ps[i + 1] = 5 ->
                    {IF p = 38 THEN "foreground" ELSE "background"}
                        \cup ParamFields(ps, i + 3)
               [] p \in {38, 48} /\ i + 4 <= Len(ps) /\ ps[i + 1] = 2 ->
                    {IF p = 38 THEN "foreground" ELSE "background"}
                        \cup ParamFields(ps, i + 5)
               [] OTHER -> {"unknown"} \cup ParamFields(ps, i + 1)

\* The fields that contribute a parameter to the bytes of one call.
EmittedFields(out) ==
    IF out = <<>> THEN {}
    ELSE IF Len(out) < 2 \/ out[1] # "ESC" \/ out[2] # "[" THEN {"unknown"}
    ELSE LET ps == ReadParams(out, 3, 0, FALSE, <<>>)
         IN  IF ps.ok /\ ps.next = Len(out) + 1 THEN ParamFields(ps.params, 1)
             ELSE {"unknown"}

\* The fields to which change c gives a value other than the one of s.
ChangedFields(c, s) == {Group(f) : f \in {g \in Fields : apply_to(c, s)[g] # s[g]}}

\* C4: on both writers, change_style with a StyleChange that keeps all
\* eight fields writes no byte, returns Ok and leaves the style as it was.
KeepChangeIsNoOp ==
    \A i \in 1..Len(calls) :
        calls[i].op = "change_style" /\ calls[i].change = KEEP =>
            /\ calls[i].ansi_out = <<>> /\ calls[i].not_styled_out = <<>>
            /\ calls[i].ansi_ret = Ok /\ calls[i].not_styled_ret = Ok
            /\ AnsiAfter(i) = calls[i].ansi_before
            /\ NotStyledAfter(i) = calls[i].not_styled_before

\* C4, witness: the all-Keep change has been given to writers in a style
\* that is not the default one.
KeepChangeIsNoOpWitness ==
    /\ Len(calls) = 1
    /\ calls[1].op = "change_style" /\ calls[1].change = KEEP
    /\ calls[1].ansi_before.bold /\ calls[1].ansi_before.underline
    /\ calls[1].ansi_before.foreground = ANSI256(200)
    /\ ansi.style = calls[1].ansi_before

\* C8: on both writers, two swap_colors in a row leave foreground and
\* background as they were before the first; and with foreground equal to
\* background neither call writes a byte.
SwapTwiceRestores ==
    Len(calls) = 2 /\ calls[1].op = "swap_colors" /\ calls[2].op = "swap_colors" =>
        /\ ansi.style.foreground = calls[1].ansi_before.foreground
        /\ ansi.style.background = calls[1].ansi_before.background
        /\ not_styled.style.foreground = calls[1].not_styled_before.foreground
        /\ not_styled.style.background = calls[1].not_styled_before.background
        /\ calls[1].ansi_before.foreground = calls[1].ansi_before.background =>
                calls[1].ansi_out = <<>> /\ calls[2].ansi_out = <<>>
        /\ calls[1].not_styled_before.foreground
                = calls[1].not_styled_before.background =>
                calls[1].not_styled_out = <<>> /\ calls[2].not_styled_out = <<>>

\* C8, witness: swap_colors was called twice on writers whose colours
\* differed, and both calls of the ANSI writer wrote.
SwapTwiceRestoresWitness ==
    /\ Len(calls) = 2
    /\ calls[1].op = "swap_colors" /\ calls[2].op = "swap_colors"
    /\ calls[1].ansi_before.foreground = RGB(255, 7, 64)
    /\ calls[1].ansi_before.background = Color4Bit(BRIGHT_RED)
    /\ calls[1].ansi_out # <<>> /\ calls[2].ansi_out # <<>>
    /\ calls[2].ansi_before.foreground = Color4Bit(BRIGHT_RED)

\* The StyleChange swap_colors stands for, in style s.
SwapChange(s) ==
    [KEEP EXCEPT !.foreground = SetTo(s.background),
                 !.background = SetTo(s.foreground)]

\* C9: with foreground other than background, swap_colors of the ANSI
\* writer writes the bytes, and ends in the style, of change_style with
\* {foreground: SetTo(old background), background: SetTo(old foreground)}.
SwapMatchesChangeStyle ==
    \A i \in 1..Len(calls) :
        /\ calls[i].op = "swap_colors"
        /\ calls[i].ansi_before.foreground # calls[i].ansi_before.background
        => LET s == calls[i].ansi_before
               r == ansi_change_style(s, SwapChange(s), NoFail)
           IN  /\ calls[i].ansi_out = r.out
               /\ AnsiAfter(i) = r.style
               /\ calls[i].ansi_ret = r.ret

\* C9, witness: swap_colors has written the swap of a bright 4-bit
\* foreground and a 256-colour background.
SwapMatchesChangeStyleWitness ==
    /\ Len(calls) = 1 /\ calls[1].op = "swap_colors"
    /\ calls[1].ansi_before.foreground = Color4Bit(BRIGHT_RED)
    /\ calls[1].ansi_before.background = ANSI256(200)
    /\ calls[1].ansi_out # <<>>
    /\ ansi.style.background = Color4Bit(BRIGHT_RED)

\* C10, as claimed: change_style of the ANSI writer writes a parameter for
\* exactly the fields to which the change gives a value other than the
\* current one (bold and dim as one field), and nothing when there is none.
EmitsExactlyChangedValues ==
    \A i \in 1..Len(calls) :
        calls[i].op = "change_style" =>
            LET changed == ChangedFields(calls[i].change, calls[i].ansi_before)
            IN  /\ EmittedFields(calls[i].ansi_out) = changed
                /\ changed = {} => calls[i].ansi_out = <<>>

\* C10, as the code has it: change_style of the ANSI writer writes a
\* parameter for exactly the fields the change sets, whatever their current
\* values (bold and dim as one field), and nothing when it sets none.
EmitsExactlySetFields ==
    \A i \in 1..Len(calls) :
        calls[i].op = "change_style" =>
            /\ EmittedFields(calls[i].ansi_out)
                    = {Group(f) : f \in SetFields(calls[i].change)}
            /\ calls[i].ansi_out = <<>> <=> calls[i].change = KEEP

\* C10, witness: change_style has written parameters for a change that
\* sets italic and foreground to the values they had, and for nothing else.
EmitsExactlySetFieldsWitness ==
    /\ Len(calls) = 1 /\ calls[1].op = "change_style"
    /\ SetFields(calls[1].change) = {"italic", "foreground"}
    /\ apply_to(calls[1].change, calls[1].ansi_before) = calls[1].ansi_before
    /\ EmittedFields(calls[1].ansi_out) = {"italic", "foreground"}

\* C5, as claimed: with_style! on either backend, no style operation of
\* the macro failing: the macro returns Ok(V), V the value of the work
\* unit, and the style of the writer is the one before the macro.
WithStyleRoundTrip ==
    /\ macro.pc = "returned" /\ macro.kind = "with_style"
    /\ macro.first = Ok /\ macro.second = Ok
    => /\ macro.result = OkValue(macro.value)
       /\ MacroWriter.style = macro.before

\* C5, as the code has it: with_style! on either backend, no style
\* operation of the macro failing: the macro returns Ok(V); every field the
\* change sets has the value it had before the macro, every field it keeps
\* has the value the work unit left; so the style is the one before the
\* macro exactly when the work unit left the fields the change keeps as
\* they were.
WithStyleRestoresSetFields ==
    /\ macro.pc = "returned" /\ macro.kind = "with_style"
    /\ macro.first = Ok /\ macro.second = Ok
    => LET set == SetFields(macro.style_change)
       IN  /\ macro.result = OkValue(macro.value)
           /\ \A f \in set : MacroWriter.style[f] = macro.before[f]
           /\ \A f \in Fields \ set : MacroWriter.style[f] = macro.after_work[f]
           /\ MacroWriter.style = macro.before
                <=> \A f \in Fields \ set : macro.after_work[f] = macro.before[f]

\* C5, witness: with_style! has returned Ok(V) on the ANSI writer, having
\* set and restored foreground and bold around a work unit that changed
\* nothing.
WithStyleRestoresSetFieldsWitness ==
    /\ macro.pc = "returned" /\ macro.kind = "with_style"
    /\ macro.backend = "ansi"
    /\ macro.first = Ok /\ macro.second = Ok
    /\ macro.work.op = "none"
    /\ macro.style_change.foreground = SetTo(ANSI256(200))
    /\ macro.style_change.bold = SetTo(TRUE)
    /\ macro.before.foreground = Color4Bit(BRIGHT_RED) /\ ~ macro.before.bold
    /\ macro.during.foreground = ANSI256(200) /\ macro.during.bold
    /\ ansi.style = macro.before
    /\ macro.result = OkValue(MaxValue)

\* C6: in each of the three macros, when the first style operation returns
\* an error, the macro returns that error, the work unit is never run and
\* there is no second style operation.
FirstErrorAborts ==
    macro.style_ops >= 1 /\ macro.first # Ok =>
        /\ macro.pc = "returned"
        /\ macro.result = macro.first
        /\ ~ macro.work_ran
        /\ macro.style_ops = 1 /\ macro.second = None

\* C6, witness: with_swapped_colors! has returned the error of a sink that
\* failed in the middle of the first swap_colors.
FirstErrorAbortsWitness ==
    /\ macro.pc = "returned" /\ macro.kind = "with_swapped_colors"
    /\ macro.first = Err("BrokenPipe") /\ macro.result = Err("BrokenPipe")
    /\ Len(ansi.writer) = MaxAccepted
    /\ ~ macro.work_ran

\* C7: in with_style!, when the first change_style succeeded and the work
\* unit produced its result, and the closing change_style returns an
\* error, the macro returns that error and not the result of the work.
RevertErrorReplacesResult ==
    /\ macro.kind = "with_style" /\ macro.pc = "returned"
    /\ macro.first = Ok /\ macro.work_ran /\ macro.second # Ok
    => /\ macro.result = macro.second
       /\ macro.result # OkValue(macro.value)
       /\ macro.result \in {Err(e) : e \in ErrorKinds}

\* C7, witness: with_style! has returned the error of the closing
\* change_style, after a work unit that produced a value.
RevertErrorReplacesResultWitness ==
    /\ macro.kind = "with_style" /\ macro.pc = "returned"
    /\ macro.first = Ok /\ macro.work_ran /\ macro.value = 1
    /\ macro.second = Err("WriteZero") /\ macro.result = Err("WriteZero")
    /\ macro.style_ops = 2

RECURSIVE BoldDimCodes(_, _)
\* The parameters 1, 2 and 22 among the SGR parameters of `ps` from place
\* i on, in order; the numbers after 38 and 48 belong to a colour.
BoldDimCodes(ps, i) ==
    IF i > Len(ps) THEN <<>>
    ELSE CASE ps[i] \in {1, 2, 22} -> <<ps[i]>> \o BoldDimCodes(ps, i + 1)
           [] ps[i] \in {38, 48} /\ i + 1 <= Len(ps) /\ ps[i + 1] = 5 ->
                BoldDimCodes(ps, i + 3)
           [] ps[i] \in {38, 48} /\ i + 1 <= Len(ps) /\ ps[i + 1] = 2 ->
                BoldDimCodes(ps, i + 5)
           [] OTHER -> BoldDimCodes(ps, i + 1)

\* The SGR parameters of the bytes of one call, <<0 - 1>> when they are not
\* one escape sequence.
ParamsOf(out) ==
    IF out = <<>> THEN <<>>
    ELSE IF Len(out) < 2 \/ out[1] # "ESC" \/ out[2] # "[" THEN <<0 - 1>>
    ELSE LET ps == ReadParams(out, 3, 0, FALSE, <<>>)
         IN  IF ps.ok /\ ps.next = Len(out) + 1 THEN ps.params ELSE <<0 - 1>>

\* C11: change_style of the ANSI writer, bold or dim being SetTo, writes
\* one bold/dim group, chosen by the resulting (bold, dim), a Keep resolved
\* from the current style: 1;2, 22;1, 22;2 or 22; both being Keep, it
\* writes none.  Bold alone set on, dim being off, writes ESC[22;1m.
BoldDimGroupByResult ==
    \A i \in 1..Len(calls) :
        calls[i].op = "change_style" =>
            LET c == calls[i].change
                s == calls[i].ansi_before
                bold == IF c.bold.tag = "SetTo" THEN c.bold.value ELSE s.bold
                dim == IF c.dim.tag = "SetTo" THEN c.dim.value ELSE s.dim
                group == BoldDimCodes(ParamsOf(calls[i].ansi_out), 1)
            IN  /\ c.bold.tag = "SetTo" \/ c.dim.tag = "SetTo" =>
                    /\ bold /\ dim => group = <<1, 2>>
                    /\ bold /\ ~ dim => group = <<22, 1>>
                    /\ ~ bold /\ dim => group = <<22, 2>>
                    /\ ~ bold /\ ~ dim => group = <<22>>
                    /\ AnsiAfter(i).bold = bold /\ AnsiAfter(i).dim = dim
                /\ c.bold.tag = "Keep" /\ c.dim.tag = "Keep" => group = <<>>
                /\ c = [KEEP EXCEPT !.bold = SetTo(TRUE)] /\ ~ s.dim =>
                    calls[i].ansi_out = <<"ESC", "[", "2", "2", ";", "1", "m">>

\* C11, witness: bold alone was set on, dim being off and kept, on a writer
\* that was bold already, and ESC[22;1m was written.
BoldDimGroupByResultWitness ==
    /\ Len(calls) = 1 /\ calls[1].op = "change_style"
    /\ calls[1].change = [KEEP EXCEPT !.bold = SetTo(TRUE)]
    /\ calls[1].ansi_before.bold /\ ~ calls[1].ansi_before.dim
    /\ calls[1].ansi_out = <<"ESC", "[", "2", "2", ";", "1", "m">>

\* The parameters claimed for a colour: `base` is 30 for a foreground and
\* 40 for a background.
ClaimedColorParams(color, base) ==
    CASE color.tag = "Unset" -> <<base + 9>>
      [] color.tag = "Color4Bit" ->
            LET red == color.bits % 2
                green == (color.bits \div 2) % 2
                blue == (color.bits \div 4) % 2
                bright == (color.bits \div 8) % 2 = 1
                N == red + 2 * green + 4 * blue
            IN  IF bright THEN <<base + 60 + N>> ELSE <<base + N>>
      [] color.tag = "ANSI256" -> <<base + 8, 5, color.n>>
      [] color.tag = "RGB" -> <<base + 8, 2, color.r, color.g, color.b>>

ClaimedChangeParams(change, base) ==
    IF change.tag = "Keep" THEN <<>> ELSE ClaimedColorParams(change.value, base)

RECURSIVE DigitsOf(_, _)
\* The number of digits of the parameters of `ps` from place i on, each
\* written in decimal without leading zeroes.
DigitsOf(ps, i) ==
    IF i > Len(ps) THEN 0
    ELSE (IF ps[i] < 10 THEN 1 ELSE IF ps[i] < 100 THEN 2 ELSE 3)
            + DigitsOf(ps, i + 1)

\* `out` is nothing for no parameter, and else ESC [ p ; ... ; p m with the
\* parameters `ps` in decimal without leading zeroes.
IsSequenceOf(out, ps) ==
    IF ps = <<>> THEN out = <<>>
    ELSE /\ ParamsOf(out) = ps
         /\ Len(out) = 2 + DigitsOf(ps, 1) + (Len(ps) - 1) + 1

\* C12: change_style of the ANSI writer writes a SetTo foreground as 39
\* for Unset, 3N for a dark and 9N for a bright 4-bit colour, N the sum of
\* red (1), green (2) and blue (4), 38;5;n for ANSI256(n), 38;2;r;g;b for
\* RGB, and a SetTo background as 49, 4N, 10N, 48;5;n, 48;2;r;g;b.
\* Foreground alone set to bright red writes ESC[91m, background alone set
\* to index 200 writes ESC[48;5;200m.
ColorsEncodedAsClaimed ==
    \A i \in 1..Len(calls) :
        /\ calls[i].op = "change_style"
        /\ SetFields(calls[i].change) \subseteq {"foreground", "background"}
        => LET c == calls[i].change
           IN  /\ IsSequenceOf(calls[i].ansi_out,
                        ClaimedChangeParams(c.foreground, 30)
                            \o ClaimedChangeParams(c.background, 40))
               /\ c = [KEEP EXCEPT !.foreground = SetTo(Color4Bit(BRIGHT_RED))]
                    => calls[i].ansi_out = <<"ESC", "[", "9", "1", "m">>
               /\ c = [KEEP EXCEPT !.background = SetTo(ANSI256(200))]
                    => calls[i].ansi_out
                        = <<"ESC", "[", "4", "8", ";", "5", ";", "2", "0", "0", "m">>

\* C12, witness: a bright 4-bit foreground and an RGB background were set
\* in one call.
ColorsEncodedAsClaimedWitness ==
    /\ Len(calls) = 1 /\ calls[1].op = "change_style"
    /\ calls[1].change.foreground = SetTo(Color4Bit(13))
    /\ calls[1].change.background = SetTo(RGB(255, 7, 64))
    /\ ParamsOf(calls[1].ansi_out) = <<95, 48, 2, 255, 7, 64>>
    /\ ansi.style.foreground = Color4Bit(13)

\* C13: reset_style of the ANSI writer, in every style, the default one
\* too, writes the four bytes ESC [ 0 m and records Style::default(), the
\* style that change_style(StyleChange::RESET) records.
ResetWritesZero ==
    \A i \in 1..Len(calls) :
        calls[i].op = "reset_style" =>
            /\ calls[i].ansi_out = <<"ESC", "[", "0", "m">>
            /\ calls[i].ansi_ret = Ok
            /\ AnsiAfter(i) = Style_default
            /\ AnsiAfter(i)
                = ansi_change_style(calls[i].ansi_before, RESET, NoFail).style

\* C13, witness: reset_style was called in the default style and wrote
\* its four bytes.
ResetWritesZeroWitness ==
    /\ Len(calls) = 1 /\ calls[1].op = "reset_style"
    /\ calls[1].ansi_before = Style_default
    /\ Len(calls[1].ansi_out) = 4
    /\ ansi.style = Style_default

\* The last n bytes of `bytes`.
Tail_n(bytes, n) ==
    IF Len(bytes) < n THEN bytes
    ELSE SubSeq(bytes, Len(bytes) - n + 1, Len(bytes))

\* C14: when with_style_then_reset! has returned Ok, the style of the
\* writer is Style::default(), whatever it was before the macro, and the
\* last style operation on the writer is a reset_style, issued after the
\* work unit, and not a revert.
ThenResetEndsInDefault ==
    /\ macro.pc = "returned" /\ macro.kind = "with_style_then_reset"
    /\ macro.result = OkValue(macro.value)
    => /\ MacroWriter.style = Style_default
       /\ macro.work_ran
       /\ macro.ops # <<>>
       /\ macro.ops[Len(macro.ops)] = StyleOp("reset_style", KEEP)
       /\ macro.work.op # "none" =>
            Len(macro.ops) = 3 /\ macro.ops[2] = macro.work
       /\ macro.backend = "ansi" =>
            Tail_n(ansi.writer, 4) = <<"ESC", "[", "0", "m">>

\* C14, witness: with_style_then_reset! has returned Ok on a writer that
\* was bold with a red foreground before it; the change set italic, and
\* the work unit set underline.
ThenResetEndsInDefaultWitness ==
    /\ macro.pc = "returned" /\ macro.kind = "with_style_then_reset"
    /\ macro.result = OkValue(1)
    /\ macro.before.bold /\ macro.before.foreground = Color4Bit(BRIGHT_RED)
    /\ macro.style_change = [KEEP EXCEPT !.italic = SetTo(TRUE)]
    /\ macro.work = StyleOp("change_style", [KEEP EXCEPT !.underline = SetTo(TRUE)])
    /\ macro.during.italic /\ macro.during.bold
    /\ macro.after_work.underline
    /\ MacroWriter.style = Style_default

\* The six boolean attributes of a style.
Attributes(style) ==
    [f \in Fields \ {"foreground", "background"} |-> style[f]]

\* C15: with_swapped_colors! puts the work between two swap_colors: while
\* the work unit runs, (foreground, background) of the writer is the
\* (background, foreground) from before the macro; and when the macro has
\* returned Ok after a work unit with no style operation of its own,
\* foreground and background are as before the macro and the six boolean
\* attributes never changed.
SwappedWhileWorking ==
    macro.kind = "with_swapped_colors" =>
        /\ macro.work_ran =>
            /\ macro.ops[1] = StyleOp("swap_colors", KEEP)
            /\ macro.during.foreground = macro.before.background
            /\ macro.during.background = macro.before.foreground
            /\ Attributes(macro.during) = Attributes(macro.before)
        /\ macro.pc = "returned" /\ macro.result = OkValue(macro.value)
                /\ macro.work.op = "none" =>
            /\ macro.ops = <<StyleOp("swap_colors", KEEP), StyleOp("swap_colors", KEEP)>>
            /\ MacroWriter.style.foreground = macro.before.foreground
            /\ MacroWriter.style.background = macro.before.background
            /\ Attributes(MacroWriter.style) = Attributes(macro.before)

\* C15, witness: with_swapped_colors! has returned Ok on an ANSI writer
\* that was bold with a red foreground and no background, after a work
\* unit with no style operation of its own.
SwappedWhileWorkingWitness ==
    /\ macro.kind = "with_swapped_colors" /\ macro.backend = "ansi"
    /\ macro.pc = "returned" /\ macro.result = OkValue(MaxValue)
    /\ macro.work.op = "none"
    /\ macro.before.foreground = Color4Bit(BRIGHT_RED)
    /\ macro.before.background = Unset /\ macro.before.bold
    /\ macro.during.background = Color4Bit(BRIGHT_RED)
    /\ ansi.style = macro.before
    /\ ansi.writer # <<>>

\* C16: for every StyleChange c and Style s, c.reverting_to(s) has Keep in
\* the fields where c has Keep, and no others, and SetTo of the value of s
\* in the fields where c has SetTo; so applying it changes no field that c
\* keeps.
RevertKeepsWhatChangeKeeps ==
    alg.pc = "reverted" =>
        \A f \in Fields :
            /\ alg.c[f] = Keep <=> alg.revert[f] = Keep
            /\ alg.c[f].tag = "SetTo" <=> alg.revert[f] = SetTo(alg.s[f])
            /\ alg.c[f] = Keep =>
                \A t \in {alg.applied, Style_default, colors_swapped(alg.applied)} :
                    apply_to(alg.revert, t)[f] = t[f]

\* C16, witness: the revert of a change that sets bold and foreground,
\* and nothing else, in a style that is underlined with a background.
RevertKeepsWhatChangeKeepsWitness ==
    /\ alg.pc = "reverted"
    /\ SetFields(alg.c) = {"bold", "foreground"}
    /\ alg.s.underline /\ alg.s.background = RGB(255, 7, 64) /\ ~ alg.s.bold
    /\ alg.c.bold = SetTo(TRUE)
    /\ alg.revert.bold = SetTo(FALSE) /\ alg.revert.underline = Keep
    /\ alg.revert.background = Keep

\* `out` is one sequence ESC [ code (; code)* m, every code a run of one
\* or more decimal digits.
IsOneSGRSequence(out) ==
    LET n == Len(out)
    IN  /\ n >= 4
        /\ out[1] = "ESC" /\ out[2] = "["
        /\ out[n] = "m"
        /\ \A j \in 3..(n - 1) : out[j] \in DOMAIN DigitValueOf \cup {";"}
        /\ out[3] # ";" /\ out[n - 1] # ";"
        /\ \A j \in 3..(n - 2) : ~ (out[j] = ";" /\ out[j + 1] = ";")

\* C17: the sink never failing, the bytes of each call of change_style,
\* reset_style and swap_colors of the ANSI writer are none, or one complete
\* sequence ESC [ code (; code)* m with every code a decimal number that is
\* not empty; so the bytes of a sequence of calls are a concatenation of
\* such sequences, and there is no other escape sequence.
OnlyCompleteSGRSequences ==
    \A i \in 1..Len(calls) :
        calls[i].ansi_out = <<>> \/ IsOneSGRSequence(calls[i].ansi_out)

\* C17, witness: change_style(RESET) has written one sequence of eight
\* codes.
OnlyCompleteSGRSequencesWitness ==
    /\ Len(calls) = 1 /\ calls[1].op = "change_style"
    /\ calls[1].change = RESET
    /\ calls[1].ansi_before.italic
    /\ IsOneSGRSequence(calls[1].ansi_out)
    /\ ParamsOf(calls[1].ansi_out) = <<22, 23, 24, 25, 29, 39, 49>>

\* The components of a path that are not ".".
WithoutCurDir(path) == SelectSeq(components(path), LAMBDA c : c # CurDir)

\* The ancestors of `path` that match `base`: the same components, "."
\* apart.
MatchingAncestors(base, path) ==
    {a \in {ancestors(path)[i] : i \in 1..Len(ancestors(path))} :
        WithoutCurDir(a) = WithoutCurDir(base)}

\* C18, as claimed: find_ancestor(base, path) is Some(a) only for an
\* ancestor a of the path with the components of the base, "." apart, and
\* None only when the path has no such ancestor; also when the base or the
\* path begins with ".".
FindAncestorMatchesBase ==
    pure.pc = "found" =>
        /\ pure.result # None =>
                pure.result.some \in MatchingAncestors(pure.base, pure.path)
        /\ pure.result = None => MatchingAncestors(pure.base, pure.path) = {}

\* C19: find_ancestor(base, path) is None whenever one of base and path,
\* and not the other, begins with the root, whatever their other
\* components: so for the empty base and an absolute path, and for the
\* base "/" and a relative path.
AbsoluteNeverMatchesRelative ==
    pure.pc = "found" /\ pure.base.root # pure.path.root => pure.result = None

\* C19, witness: the empty base was looked for in the path "/./a/b".
AbsoluteNeverMatchesRelativeWitness ==
    /\ pure.pc = "found"
    /\ pure.base = PathOf(FALSE, <<>>)
    /\ pure.path = PathOf(TRUE, <<".", "a", "b">>)
    /\ pure.result = None

\* C20: find_ancestor("", p) is Some("") for every relative path p, the
\* empty one too, and find_ancestor("/", p) is Some("/") for every absolute
\* path p, "/" too; the paths being compared as Path compares them, by
\* their components.
BareBaseMatchesShortest ==
    pure.pc = "found" =>
        /\ pure.base = PathOf(FALSE, <<>>) /\ ~ pure.path.root =>
            /\ pure.result # None
            /\ pure.result = Some(PathOf(FALSE, <<>>))
        /\ pure.base = PathOf(TRUE, <<>>) /\ pure.path.root =>
            /\ pure.result # None
            /\ components(pure.result.some) = components(PathOf(TRUE, <<>>))

\* C20, witness: the base "/" was found in the path "/a/../b", as "/".
BareBaseMatchesShortestWitness ==
    /\ pure.pc = "found"
    /\ pure.base = PathOf(TRUE, <<>>)
    /\ pure.path = PathOf(TRUE, <<"a", "..", "b">>)
    /\ pure.result = Some(PathOf(TRUE, <<>>))

\* s begins with p.
IsPrefixOf(p, s) == Len(p) <= Len(s) /\ SubSeq(s, 1, Len(p)) = p

\* C21, as claimed: abbreviate_path(base, abbreviation, path) is
\* Err(BaseNotAnAcestorError) exactly when find_ancestor(base, path) is
\* None; and else Ok of the abbreviation followed by the components of the
\* path that come after those matching the base.
AbbreviateReplacesBase ==
    pure.pc = "abbreviated" =>
        LET base_components == WithoutCurDir(pure.base)
            path_components == WithoutCurDir(pure.path)
        IN  /\ pure.result = Err("BaseNotAnAcestorError")
                <=> find_ancestor(pure.base, pure.path) = None
            /\ find_ancestor(pure.base, pure.path) # None =>
                /\ pure.result.ok
                /\ IsPrefixOf(base_components, path_components)
                /\ WithoutCurDir(pure.result.value)
                    = WithoutCurDir(pure.abbreviation)
                        \o SubSeq(path_components, Len(base_components) + 1,
                                  Len(path_components))

\* The text without its spaces.
WithoutSpaces(text) == SelectSeq(text, LAMBDA c : c # " ")

\* The places of character c in the text.
PlacesOf(c, text) == {i \in 1..Len(text) : text[i] = c}

\* C22, as claimed: write_status_summary writes the working-tree change
\* summary, a vertical bar and the staging-area change summary in that
\* order, and then "!" and the conflicted count exactly when that count is
\* not zero.  Spaces are left out of the comparison, and a text without a
\* bar is only asked to end as claimed.
StatusWorkingTreeThenStaging ==
    pure.pc = "written" =>
        LET text == WithoutSpaces(pure.written)
            conflicted == IF pure.status.conflicted # 0
                          THEN <<"!">> \o Dec(pure.status.conflicted)
                          ELSE <<>>
            summaries == SubSeq(text, 1, Len(text) - Len(conflicted))
            bars == PlacesOf("|", summaries)
        IN  /\ Len(conflicted) <= Len(text)
            /\ text = summaries \o conflicted
            /\ PlacesOf("!", summaries) = {}
            /\ \A bar \in bars :
                /\ SubSeq(summaries, 1, bar - 1)
                    = WithoutSpaces(write_change_summary(pure.status.working_tree))
                /\ SubSeq(summaries, bar + 1, Len(summaries))
                    = WithoutSpaces(write_change_summary(pure.status.staging))

\* C23: a write_exit_code_symbol that returns Ok has written, in this order
\* and nothing else: the bytes of change_style(the success change if the
\* exit code is 0, the error change otherwise); the success symbol if the
\* exit code is 0, the error symbol otherwise; " " and the exit code
\* exactly when show_code_when is Always, or is OnError and the exit code
\* is not 0; the bytes of change_style(the revert of that change).  No style
\* operation comes between the symbol and the code.  A call that returns
\* an error has written a beginning of those bytes.
ExitCodeSymbolThenCode ==
    pure.pc = "written" =>
        LET success == pure.exit_code = 0
            symbol == IF success THEN pure.success_symbol ELSE pure.error_symbol
            shown == \/ pure.show_code_when = "Always"
                     \/ pure.show_code_when = "OnError" /\ pure.exit_code # 0
            text == symbol \o (IF shown THEN <<" ">> \o Display_i32(pure.exit_code)
                               ELSE <<>>)
            change == IF success THEN pure.success_style_change
                      ELSE pure.error_style_change
            apply == StyledWrite_call(pure.backend, pure.before,
                                      StyleOp("change_style", change), NoFail)
            revert == StyledWrite_call(pure.backend, apply.style,
                                       StyleOp("change_style",
                                               reverting_to(change, pure.before)),
                                       NoFail)
            whole == apply.out \o text \o revert.out
        IN  /\ apply.style = apply_to(change, pure.before)
            /\ pure.ret = Ok =>
                /\ pure.out = whole
                /\ pure.style = revert.style
            /\ pure.ret # Ok =>
                /\ IsPrefixOf(pure.out, whole)
                /\ pure.out # whole

\* C23, witness: on the ANSI writer the exit code 130 has been written after
\* the error symbol under OnError, between ESC[91m and the revert.
ExitCodeSymbolThenCodeWitness ==
    /\ pure.pc = "written"
    /\ pure.backend = "ansi"
    /\ pure.before = Style_default
    /\ pure.exit_code = 130
    /\ pure.show_code_when = "OnError"
    /\ pure.error_symbol = DEFAULT_ERROR_SYMBOL
    /\ pure.error_style_change = DEFAULT_ERROR_STYLE_CHANGE
    /\ pure.ret = Ok
    /\ pure.out = <<"ESC", "[", "9", "1", "m">> \o DEFAULT_ERROR_SYMBOL
                    \o <<" ", "1", "3", "0">> \o <<"ESC", "[", "3", "9", "m">>

RECURSIVE MulAddFrom(_, _, _, _, _)
\* The digits of n * k + a, from digit i of n down, for a u128 n and
\* integers k in 1..Limb and a < k.
MulAddFrom(n, k, i, carry, digits) ==
    IF i = 0 THEN u128_normal(<<carry>> \o digits)
    ELSE LET current == n[i] * k + carry
         IN  MulAddFrom(n, k, i - 1, current \div Limb, <<current % Limb>> \o digits)

\* n * k + a
MulAdd(n, k, a) == MulAddFrom(n, k, Len(n), a, <<>>)

\* The units from the coarsest to the finest, with the number of each in
\* one of the unit before it.
UnitsInOrder ==
    <<[unit |-> "days", per |-> 1], [unit |-> "hours", per |-> 24],
      [unit |-> "minutes", per |-> 60], [unit |-> "seconds", per |-> 60],
      [unit |-> "milliseconds", per |-> 1000],
      [unit |-> "microseconds", per |-> 1000],
      [unit |-> "nanoseconds", per |-> 1000]>>

\* The place of a unit in UnitsInOrder.
PlaceOfUnit(unit) == CHOOSE i \in 1..7 : UnitsInOrder[i].unit = unit

RECURSIVE Recomposed(_, _)
\* The components of a duration down to the i-th unit, as a total of that
\* unit.
Recomposed(duration, i) ==
    IF i = 1 THEN duration.days
    ELSE MulAdd(Recomposed(duration, i - 1), UnitsInOrder[i].per,
                duration[UnitsInOrder[i].unit])

\* C24: for every unit U and total n, HumanDuration::from_U(n) has
\* hours < 24, minutes < 60, seconds < 60, milliseconds, microseconds and
\* nanoseconds < 1000, every component finer than U 0, and its components
\* down to U recompose to n of U.
FromTotalDecomposes ==
    pure.pc = "constructed" =>
        LET d == pure.duration
            place == PlaceOfUnit(pure.unit)
        IN  /\ d.hours \in 0..23
            /\ d.minutes \in 0..59
            /\ d.seconds \in 0..59
            /\ d.milliseconds \in 0..999
            /\ d.microseconds \in 0..999
            /\ d.nanoseconds \in 0..999
            /\ \A i \in (place + 1)..7 : d[UnitsInOrder[i].unit] = 0
            /\ Recomposed(d, place) = pure.total

\* C24, witness: from_nanoseconds of 86 400 000 000 001 is a day and a
\* nanosecond; from_hours of 1 086 is 45 days and 6 hours.
FromTotalDecomposesWitness ==
    /\ pure.pc = "constructed"
    /\ \/ /\ pure.unit = "nanoseconds"
          /\ pure.total = <<86, 400, 0, 0, 1>>
          /\ pure.duration = HumanDuration(<<1>>, 0, 0, 0, 0, 0, 1)
       \/ /\ pure.unit = "hours"
          /\ pure.total = <<1, 86>>
          /\ pure.duration = HumanDuration(<<45>>, 6, 0, 0, 0, 0, 0)

\* The components of a duration from the most significant on, each with
\* whether it is 0 and the text of it: the number and the unit.
ComponentTexts(duration) ==
    <<[zero |-> duration.days = <<>>, text |-> Display_u128(duration.days) \o <<"d">>],
      [zero |-> duration.hours = 0, text |-> Dec(duration.hours) \o <<"h">>],
      [zero |-> duration.minutes = 0, text |-> Dec(duration.minutes) \o <<"m">>],
      [zero |-> duration.seconds = 0, text |-> Dec(duration.seconds) \o <<"s">>],
      [zero |-> duration.milliseconds = 0,
       text |-> Dec(duration.milliseconds) \o <<"m", "s">>],
      [zero |-> duration.microseconds = 0,
       text |-> Dec(duration.microseconds) \o <<"C2", "B5", "s">>],
      [zero |-> duration.nanoseconds = 0,
       text |-> Dec(duration.nanoseconds) \o <<"n", "s">>]>>

RECURSIVE SpaceSeparated(_, _, _)
\* The texts of the components from place i to place j, with one space
\* between two of them.
SpaceSeparated(texts, i, j) ==
    IF i > j THEN <<>>
    ELSE IF i = j THEN texts[i].text
    ELSE texts[i].text \o <<" ">> \o SpaceSeparated(texts, i + 1, j)

\* C25: write_skip_high_and_low_zeros writes the components from the most
\* significant one that is not 0 to the least significant one that is not
\* 0, those that are 0 between them included, in the order d h m s ms µs
\* ns with one space between two of them and none before or after; and
\* nothing for a duration whose components are all 0.
WritesFromFirstToLastNonZero ==
    pure.pc = "written" =>
        LET texts == ComponentTexts(pure.duration)
            nonzero == {i \in 1..7 : ~ texts[i].zero}
        IN  /\ pure.ret = Ok
            /\ nonzero = {} => pure.out = <<>>
            /\ nonzero # {} =>
                LET first == CHOOSE i \in nonzero : \A k \in nonzero : i <= k
                    last == CHOOSE i \in nonzero : \A k \in nonzero : k <= i
                IN  pure.out = SpaceSeparated(texts, first, last)

\* C25, witness: 1000 days, no hours, no minutes and 59 seconds have been
\* written as "1000d 0h 0m 59s".
WritesFromFirstToLastNonZeroWitness ==
    /\ pure.pc = "written"
    /\ pure.duration = HumanDuration(<<1, 0>>, 0, 0, 59, 0, 0, 0)
    /\ pure.out = <<"1", "0", "0", "0", "d", " ", "0", "h", " ", "0", "m", " ",
                    "5", "9", "s">>

\* The text claimed for a path: the text `first_text` for its first
\* component, root_separator after a root and separator after another
\* first component, the replacement and the separator `times` times, and
\* the last component; a single component alone; nothing for no component.
MiddleReplaced(path, first_text, separator, root_separator, replacement, times) ==
    LET cs == components(path)
    IN  IF cs = <<>> THEN <<>>
        ELSE IF Len(cs) = 1 THEN as_os_str(cs[1])
        ELSE first_text
             \o (IF cs[1] = RootDir THEN root_separator ELSE separator)
             \o Repeated(replacement \o separator, times)
             \o as_os_str(cs[Len(cs)])

\* The number of times the replacement is claimed to be written for m
\* intermediate components.
ClaimedTimes(called, m) ==
    IF called = "write_with_middle_hidden" THEN m
    ELSE IF m >= 1 THEN 1 ELSE 0

\* C26, as claimed: for a path with components first, m intermediate ones,
\* last, write_with_middle_hidden writes replacement and separator m times
\* between first and last and write_short once if m >= 1 and not at all if
\* m = 0; both write first and last verbatim, root_separator after a root
\* first component, and a single component alone.
MiddleHiddenFirstVerbatim ==
    pure.pc = "written" /\ components(pure.path) # <<>> =>
        LET cs == components(pure.path)
        IN  pure.out = MiddleReplaced(pure.path, as_os_str(cs[1]), pure.separator,
                                      pure.root_separator, pure.replacement,
                                      ClaimedTimes(pure.called, Len(cs) - 2))

\* C26, amended: as claimed, but a root first component that is followed by
\* another component is written as root_dir_override when one is given,
\* and verbatim otherwise.
MiddleHiddenFirstOrOverride ==
    pure.pc = "written" /\ components(pure.path) # <<>> =>
        LET cs == components(pure.path)
            first_text == IF cs[1] = RootDir /\ pure.root_dir_override # None
                          THEN pure.root_dir_override.some
                          ELSE as_os_str(cs[1])
        IN  /\ pure.ret = Ok
            /\ pure.out = MiddleReplaced(pure.path, first_text, pure.separator,
                                         pure.root_separator, pure.replacement,
                                         ClaimedTimes(pure.called, Len(cs) - 2))

\* C26, witness: write_short has written /a/b/../b with an override as
\* "C:" "/" "*" " > " "b": two intermediate components, one replacement.
MiddleHiddenFirstOrOverrideWitness ==
    /\ pure.pc = "written"
    /\ pure.called = "write_short"
    /\ pure.path = PathOf(TRUE, <<"a", "..", "b">>)
    /\ pure.root_dir_override = Some(<<"C", ":">>)
    /\ pure.root_separator = <<"/">>
    /\ pure.separator = <<" ", ">", " ">>
    /\ pure.out = <<"C", ":", "/", "*", " ", ">", " ", "b">>

\* C27: when a StyleChange d is applied between c, applied to a writer in
\* style s, and c.reverting_to(s), then after the revert every field c sets
\* has its value in s and every field c keeps the value d left it; so the
\* style is s exactly when applying d changed the value of no field that c
\* keeps.
RevertAfterAnotherChange ==
    alg.pc = "reverted_after" =>
        LET set == SetFields(alg.c)
        IN  /\ \A f \in set : alg.reverted[f] = alg.s[f]
            /\ \A f \in Fields \ set : alg.reverted[f] = alg.between[f]
            /\ alg.reverted = alg.s
                <=> \A f \in Fields \ set : alg.between[f] = alg.applied[f]

\* C27, witness: on the ANSI writer c set the foreground, d then set the
\* foreground and the underline, and after the revert the foreground is
\* that of s and the underline the one d set.
RevertAfterAnotherChangeWitness ==
    /\ alg.pc = "reverted_after"
    /\ alg.backend = "ansi"
    /\ alg.s = Style_default
    /\ alg.c = [KEEP EXCEPT !.foreground = SetTo(ANSI256(200))]
    /\ alg.d = [KEEP EXCEPT !.foreground = SetTo(Color4Bit(BRIGHT_RED)),
                            !.underline = SetTo(TRUE)]
    /\ alg.between.foreground = Color4Bit(BRIGHT_RED)
    /\ alg.reverted = [Style_default EXCEPT !.underline = TRUE]

\* C28: a change_style, reset_style or swap_colors of the ANSI writer on a
\* sink that fails one of its writes returns the error of the sink, has
\* written the bytes the sink accepted of those the call writes on a sink
\* that never fails, a proper beginning of them, and nothing after, and
\* leaves the style the writer had before the call.
FailedCallKeepsStyle ==
    LET call == calls[1]
        full == StyledWrite_call("ansi", call.before,
                                 StyleOp(call.op, call.arg), NoFail)
    IN  Len(calls) = 1 /\ call.backend = "ansi" /\ call.op \in StyleOpNames =>
            /\ call.ret # Ok <=> call.cap.fails /\ Len(full.out) > call.cap.accepted
            /\ call.ret # Ok =>
                /\ call.ret = Err(call.cap.error)
                /\ call.out = SubSeq(full.out, 1, call.cap.accepted)
                /\ ansi.writer = call.out
                /\ ansi.style = call.before

\* C28, witness: a change_style that sets bold and dim in the default style
\* has failed after ESC[1; reached the sink, and the style is the default.
FailedCallKeepsStyleWitness ==
    /\ Len(calls) = 1 /\ calls[1].backend = "ansi"
    /\ calls[1].op = "change_style"
    /\ calls[1].arg = [KEEP EXCEPT !.bold = SetTo(TRUE), !.dim = SetTo(TRUE)]
    /\ calls[1].before = Style_default
    /\ calls[1].ret = Err("BrokenPipe")
    /\ ansi.writer = <<"ESC", "[", "1", ";">>
    /\ ansi.style = Style_default

\* C29: on both backends the style is Style::default() right after new();
\* a write, write_all, write_vectored, write_fmt or flush passes its bytes
\* to the sink (all of them, or those the sink accepts), returns what the
\* sink returns, and leaves the style the writer had before the call,
\* whether it returns Ok or an error; so the style changes only in
\* change_style, reset_style and swap_colors.
ByteWritesKeepStyle ==
    LET call == calls[1]
        given == IF call.op = "write_vectored"
                 THEN (IF SelectSeq(call.arg, LAMBDA buf : buf # <<>>) = <<>>
                       THEN <<>>
                       ELSE Head(SelectSeq(call.arg, LAMBDA buf : buf # <<>>)))
                 ELSE IF call.op = "flush" THEN <<>>
                 ELSE call.arg
        accepted == IF call.cap.fails /\ call.cap.accepted < Len(given)
                    THEN SubSeq(given, 1, call.cap.accepted)
                    ELSE given
    IN  Len(calls) = 1 =>
            /\ call.op = "new" => SinkWriter.style = Style_default
            /\ call.op \notin StyleOpNames \cup {"new"} =>
                /\ SinkWriter.style = call.before
                /\ SinkWriter.writer = accepted
                /\ call.op \in {"write_all", "write_fmt"} =>
                    call.ret = IF accepted = given THEN Ok
                               ELSE Err(call.cap.error)
                /\ call.op \in {"write", "write_vectored"} =>
                    call.ret = IF accepted = <<>> /\ given # <<>>
                               THEN Err(call.cap.error)
                               ELSE OkValue(Len(accepted))
            /\ SinkWriter.style # call.before => call.op \in StyleOpNames

\* C29, witness: a write_all on the NotStyledWriter in a style other than
\* the default has failed after one byte, and the style is as before.
ByteWritesKeepStyleWitness ==
    /\ Len(calls) = 1 /\ calls[1].backend = "not_styled"
    /\ calls[1].op = "write_all"
    /\ calls[1].arg = <<"a", "b", "c">>
    /\ calls[1].ret = Err("BrokenPipe")
    /\ not_styled.writer = <<"a">>
    /\ calls[1].before # Style_default
    /\ not_styled.style = calls[1].before
====
